---- MODULE Spec2Model ----
(***************************************************************************)
(* Model of the chat-record transfer engine of cursor-chat-transfer:       *)
(* src/lib/transfer.js (importFromObject, buildExportObject,               *)
(* cloneExportObjectForCopy, removeComposersFromWorkspace) and the Import  *)
(* command of src/extension.js, over the storage access layer of           *)
(* src/lib/db.js (sqlite3 command-line client, backups, integrity).        *)
(*                                                                         *)
(* Strings are sequences of characters (one-character strings, or a fixed  *)
(* prefix such as "composerData:" taken as one character), so that the     *)
(* quoting done on the way into an SQL statement is modelled by what it    *)
(* does to the text.                                                       *)
(***************************************************************************)
EXTENDS Integers, Sequences, FiniteSets, TLC

VARIABLES
    sqlite3Found,   \* findSqlite3() finds the client (fixed for a behaviour)
    obj,            \* the snapshot handed to importFromObject
    callsLeft,      \* how many times the caller still invokes importFromObject
    gl,             \* global store, table cursorDiskKV: key -> value
    ws,             \* workspace store, ItemTable row 'composer.composerData'
    files,          \* backup files on disk
    pc,             \* position inside importFromObject
    callNo,         \* number of the current call (stands for the time stamp)
    wsBackupPath,   \* local of importFromObject
    glBackupPath,   \* local of importFromObject
    wsIntegrity,    \* local: result of the first integrity check of a pair
    inserted,       \* local: the count importFromObject returns
    current,        \* local: the parsed Index document
    glPre,          \* history: gl when the call started
    wsPre,          \* history: ws when the call started
    hist,           \* history: the store operations of the call, in order
    firstResult,    \* history: how the first call ended
    glFirst,        \* history: gl when the first call ended
    wsFirst,        \* history: ws when the first call ended
    srcWs,          \* source workspace store, row 'composer.composerData'
    srcGl,          \* payload store the export reads
    selectedComposerIds,  \* argument of buildExportObject
    exp,            \* what buildExportObject returned
    cloneResult,    \* what cloneExportObjectForCopy returned
    composerIdsToRemove,  \* argument of removeComposersFromWorkspace
    backupPath,     \* local of removeComposersFromWorkspace
    srcWsPre,       \* history: srcWs when removeComposersFromWorkspace started
    file,           \* the document doImport parsed from the chosen file
    step,           \* position of the command outside importFromObject
    mode,           \* doLocalImport: 'copy', 'cut' or 'ref'
    sourceWsUri,    \* doLocalImport: the workspace store picked as source
    targetWsUri,    \* doLocalImport: the workspace store written to
    otherCall       \* the locals of a second importFromObject call in flight

\* the state of the operations around importFromObject
localVars == <<mode, sourceWsUri, targetWsUri>>

cmdVars == <<srcWs, srcGl, selectedComposerIds, exp, cloneResult,
             composerIdsToRemove, backupPath, srcWsPre, file, step, localVars, otherCall>>

vars == <<sqlite3Found, obj, callsLeft, gl, ws, files, pc, callNo, wsBackupPath,
          glBackupPath, wsIntegrity, inserted, current, glPre, wsPre, hist,
          firstResult, glFirst, wsFirst, cmdVars>>

\* ------------------------------------------------------------------ bounds
MaxRecords == 2     \* records in a snapshot's allComposers
MaxIndex == 2       \* records in the target Index before the first call
MaxCalls == 2       \* successive importFromObject calls with one snapshot

\* -------------------------------------------------------------- identifiers
idA == <<"a">>
idB == <<"b">>
idC == <<"c">>
NoId == <<>>        \* a record without composerId (falsy in the code)
fragF == <<"f">>

valX == <<"x">>             \* a payload of the snapshot
valQ == <<"'", "y">>        \* a payload holding a single quote
valOld == <<"o", "'">>      \* a payload the target store already holds
NoValue == <<>>             \* an empty value (falsy in the code)

ComposerKey(id) == <<"composerData:">> \o id
BubbleKey(cid, bid) == <<"bubbleId:">> \o cid \o <<":">> \o bid

NoPath == [db |-> "none", stamp |-> 0]

\* ---------------------------------------------------------- Index documents
AbsentDoc == [kind |-> "absent", allComposers |-> <<>>, other |-> "none"]
MalformedDoc == [kind |-> "malformed", allComposers |-> <<>>, other |-> "none"]
JsonDoc(list, other) == [kind |-> "json", allComposers |-> list, other |-> other]

Entry(id, name) == [composerId |-> id, name |-> name]

RECURSIVE SeqsUpTo(_, _)
SeqsUpTo(S, n) ==
    IF n = 0 THEN {<<>>}
    ELSE LET shorter == SeqsUpTo(S, n - 1)
         IN shorter \cup {Append(s, x) : s \in {t \in shorter : Len(t) = n - 1}, x \in S}

\* ------------------------------------------------- db.js: SQL text quoting
\* key.replace(/'/g, "''") and value.replace(/'/g, "''")
RECURSIVE EscapeQuotes(_)
EscapeQuotes(s) ==
    IF s = <<>> THEN <<>>
    ELSE (IF Head(s) = "'" THEN <<"'", "'">> ELSE <<Head(s)>>) \o EscapeQuotes(Tail(s))

\* The text sqlite3 stores for the literal '<s>': a doubled quote is one quote,
\* a single quote ends the literal.
RECURSIVE SqlString(_)
SqlString(s) ==
    IF s = <<>> THEN <<>>
    ELSE IF Head(s) = "'"
         THEN IF Len(s) >= 2 /\ s[2] = "'"
              THEN <<"'">> \o SqlString(Tail(Tail(s)))
              ELSE <<>>
         ELSE <<Head(s)>> \o SqlString(Tail(s))

EmptyStore == [k \in {} |-> <<>>]

\* mutant: INSERT OR REPLACE
InsertOrIgnore_Replace(store, pair) ==
    LET k == SqlString(EscapeQuotes(pair.key))
        v == SqlString(EscapeQuotes(pair.value))
    IN (k :> v) @@ store

\* One statement INSERT OR IGNORE INTO cursorDiskKV (key, value) VALUES ('k', 'v')
InsertOrIgnore(store, pair) ==
    LET k == SqlString(EscapeQuotes(pair.key))
        v == SqlString(EscapeQuotes(pair.value))
    IN IF k \in DOMAIN store THEN store ELSE (k :> v) @@ store

\* The statements of one BEGIN TRANSACTION ... COMMIT batch, in order
RECURSIVE InsertOrIgnoreAll(_, _)
InsertOrIgnoreAll(store, pairs) ==
    IF pairs = <<>> THEN store
    ELSE InsertOrIgnoreAll(InsertOrIgnore(store, Head(pairs)), Tail(pairs))

\* What insertKVWithCLI returns when the batch succeeded
InsertedCount(store, pairs) == Len(pairs)

\* --------------------------------------- transfer.js: importFromObject, pure
Bubble(key, value, bubbleId) == [key |-> key, value |-> value, bubbleId |-> bubbleId]

\* mutant: the loop stops after the first composer
ComposerPairs_FirstOnly(composers) ==
    IF composers = <<>> THEN <<>>
    ELSE <<[key |-> ComposerKey(Head(composers).id), value |-> Head(composers).value]>>

\* for (const [id, value] of Object.entries(obj.composers || {}))
RECURSIVE ComposerPairs(_)
ComposerPairs(composers) ==
    IF composers = <<>> THEN <<>>
    ELSE <<[key |-> ComposerKey(Head(composers).id), value |-> Head(composers).value]>>
         \o ComposerPairs(Tail(composers))

\* for (const bubble of composerBubbles): entries without key or value are skipped
RECURSIVE BubblePairsOf(_)
BubblePairsOf(list) ==
    IF list = <<>> THEN <<>>
    ELSE (IF Head(list).key = <<>> \/ Head(list).value = NoValue
          THEN <<>>
          ELSE <<[key |-> Head(list).key, value |-> Head(list).value]>>)
         \o BubblePairsOf(Tail(list))

RECURSIVE BubblePairs(_)
BubblePairs(bubbles) ==
    IF bubbles = <<>> THEN <<>>
    ELSE BubblePairsOf(Head(bubbles).list) \o BubblePairs(Tail(bubbles))

KvPairs(o) == ComposerPairs(o.composers) \o BubblePairs(o.bubbles)

\* new Set(currentList.map(c => c.composerId).filter(Boolean))
ExistingIds(list) == {list[i].composerId : i \in 1..Len(list)} \ {NoId}

\* the loop that fills additions, existingIds growing as it goes
RECURSIVE AdditionsFrom(_, _)
AdditionsFrom(existingIds, all) ==
    IF all = <<>> THEN <<>>
    ELSE LET c == Head(all)
         IN IF c.composerId = NoId THEN AdditionsFrom(existingIds, Tail(all))
            ELSE IF c.composerId \notin existingIds
                 THEN <<c>> \o AdditionsFrom(existingIds \cup {c.composerId}, Tail(all))
                 ELSE AdditionsFrom(existingIds, Tail(all))

Additions(cur, o) == AdditionsFrom(ExistingIds(cur.allComposers), o.allComposers)

\* { ...current, allComposers: currentList.concat(additions) }
Merged(cur, additions) == JsonDoc(cur.allComposers \o additions, cur.other)

\* JSON.parse(text) of a stored Index document: a text that is not JSON makes
\* it throw (readItemTableComposer turns the throw into a rejected promise)
ParseThrows(text) == text.kind = "malformed"

\* currentJson ? JSON.parse(currentJson) : {}   (a malformed text makes parse throw)
ParseOrEmpty(text) == IF text.kind = "json" THEN text ELSE JsonDoc(<<>>, "none")

\* ----------------------------------------------------------------- inputs
SnapshotEntries == {Entry(idA, "s"), Entry(idB, "s"), Entry(NoId, "s")}
TargetEntries == {Entry(idA, "t"), Entry(idC, "t")}

ComposersChoices ==
    { <<>>,
      <<[id |-> idA, value |-> valX]>>,
      <<[id |-> idA, value |-> valX], [id |-> idB, value |-> valQ]>> }

BubblesChoices ==
    { <<>>,
      <<[composerId |-> idA, list |-> <<Bubble(BubbleKey(idA, fragF), valQ, fragF)>>]>>,
      <<[composerId |-> idA,
         list |-> <<Bubble(BubbleKey(idA, fragF), valX, fragF),
                    Bubble(BubbleKey(idA, fragF), valQ, fragF)>>]>>,
      <<[composerId |-> idA,
         list |-> <<Bubble(ComposerKey(idA), valQ, fragF),
                    Bubble(BubbleKey(idA, fragF), NoValue, fragF)>>]>> }

Snapshots ==
    [allComposers : SeqsUpTo(SnapshotEntries, MaxRecords),
     composers : ComposersChoices,
     bubbles : BubblesChoices]

GlChoices ==
    { EmptyStore,
      (ComposerKey(idA) :> valOld),
      (ComposerKey(idA) :> valOld) @@ (BubbleKey(idA, fragF) :> valOld) }

WsChoices ==
    {AbsentDoc, MalformedDoc}
        \cup {JsonDoc(l, "o1") : l \in SeqsUpTo(TargetEntries, MaxIndex)}

\* ------------------------------------------------------ db.js: environment
\* checkIntegrity: without the client "Can't check, assume OK"; with it the
\* answer is the store's own (the file may be damaged by anything outside).
IntegrityOutcomes == IF sqlite3Found THEN BOOLEAN ELSE {TRUE}

\* mutant of readItemTableWithCLI: the row is read without the client
ReadOutcomes_NoClient == {ws, AbsentDoc}

\* readItemTableWithCLI: null without the client, null when the client fails,
\* null for a missing row (result.trim() || null), otherwise the stored text.
ReadOutcomes ==
    IF sqlite3Found THEN {ws, AbsentDoc} ELSE {AbsentDoc}

BackupFile(db, stamp, content) == [db |-> db, stamp |-> stamp, content |-> content]
BackupPath(db, stamp) == [db |-> db, stamp |-> stamp]
PathOf(f) == [db |-> f.db, stamp |-> f.stamp]

\* removeBackup: fs.unlinkSync of the file at the path
Unlinked(fs, path) == {f \in fs : PathOf(f) # path}

\* mutants of the integrity gate: one failing check is let through / the result is ignored
IntegrityPassed_Either(wsOk, glOk) == wsOk \/ glOk
IntegrityPassed_Ignored(wsOk, glOk) == TRUE

\* if (!wsIntegrity || !glIntegrity) throw
IntegrityPassed(wsOk, glOk) == wsOk /\ glOk

\* where control goes when a step of importFromObject throws: the catch block
\* logs and rethrows
\* mutants: the error is swallowed and the call goes on, or the catch cleans up
OnBackupError_Swallowed == "checkWsPre"
OnIntegrityError_Cleanup == "removeBackupWs"
OnInsertError_Swallowed == "readIndex"

OnBackupError == "threw"
OnIntegrityError == "threw"
OnInsertError == "threw"
OnUpdateError == "threw"

\* ------------------------------- state of the operations around the merge
\* selectedComposerIds = undefined, or an array of ids
NoSelection == [isArray |-> FALSE, ids |-> <<>>]
Selection(ids) == [isArray |-> TRUE, ids |-> ids]

NoDebugInfo ==
    [totalComposers |-> 0, composerDataKeysFound |-> 0, bubbleKeysFound |-> 0,
     missingComposerData |-> <<>>, composersWithData |-> 0, composersWithBubbles |-> 0]

\* { allComposers: [], composers: {}, bubbles: {}, debugInfo }
EmptyExport ==
    [allComposers |-> <<>>, composers |-> <<>>, bubbles |-> <<>>, debugInfo |-> NoDebugInfo]

\* { cloned, idMap, bubbleIdMap } before the loops have run
EmptyClone ==
    [cloned |-> [allComposers |-> <<>>, composers |-> <<>>, bubbles |-> <<>>],
     idMap |-> <<>>, bubbleIdMap |-> <<>>]

EmptySnapshot == [allComposers |-> <<>>, composers |-> <<>>, bubbles |-> <<>>]

\* no file was parsed
NoFile ==
    [kind |-> "none", allComposers |-> "undefined", composers |-> "undefined",
     content |-> EmptySnapshot]

\* no second call of importFromObject
NoCall == [pc |-> "none"]

\* doLocalImport is not running
NoLocal ==
    /\ mode = "none"
    /\ sourceWsUri = "none"
    /\ targetWsUri = "none"

\* no command but importFromObject runs
NoCommand ==
    /\ srcWs = AbsentDoc
    /\ srcGl = EmptyStore
    /\ selectedComposerIds = NoSelection
    /\ exp = EmptyExport
    /\ cloneResult = EmptyClone
    /\ composerIdsToRemove = <<>>
    /\ NoLocal
    /\ otherCall = NoCall
    /\ backupPath = NoPath
    /\ srcWsPre = AbsentDoc
    /\ file = NoFile
    /\ step = "merge"

\* ------------------------------------------------------------------- Init
Locals ==
    /\ pc = "idle"
    /\ callNo = 0
    /\ wsBackupPath = NoPath
    /\ glBackupPath = NoPath
    /\ wsIntegrity = TRUE
    /\ inserted = 0
    /\ current = AbsentDoc
    /\ glPre = gl
    /\ wsPre = ws
    /\ hist = <<>>
    /\ firstResult = "none"
    /\ glFirst = gl
    /\ wsFirst = ws
    /\ files = {}

\* One importFromObject call on any snapshot and any target stores
Init ==
    /\ sqlite3Found \in BOOLEAN
    /\ obj \in Snapshots
    /\ gl \in GlChoices
    /\ ws \in WsChoices
    /\ callsLeft = 1
    /\ Locals
    /\ NoCommand

\* The caller imports the same snapshot MaxCalls times in succession; the
\* snapshot holds payloads and fragments
InitTwice ==
    /\ sqlite3Found \in BOOLEAN
    /\ obj \in {o \in Snapshots : o.composers # <<>> /\ o.bubbles # <<>>}
    /\ gl \in {EmptyStore, (ComposerKey(idA) :> valOld)}
    /\ ws \in WsChoices
    /\ callsLeft = MaxCalls
    /\ Locals
    /\ NoCommand

\* ------------------------------------------------- importFromObject, steps
Throw(target) ==
    /\ pc' = target
    /\ firstResult' = IF callNo = 1 THEN "threw" ELSE firstResult
    /\ glFirst' = IF callNo = 1 THEN gl ELSE glFirst
    /\ wsFirst' = IF callNo = 1 THEN ws ELSE wsFirst

KeepFirst == UNCHANGED <<firstResult, glFirst, wsFirst>>

\* the caller invokes importFromObject(obj, wsUri, glUri)
Call ==
    /\ pc \in {"idle", "returned", "threw"}
    /\ callsLeft > 0
    /\ callsLeft' = callsLeft - 1
    /\ callNo' = callNo + 1
    /\ pc' = "createBackupWs"
    /\ wsBackupPath' = NoPath
    /\ glBackupPath' = NoPath
    /\ wsIntegrity' = TRUE
    /\ inserted' = 0
    /\ current' = AbsentDoc
    /\ glPre' = gl
    /\ wsPre' = ws
    /\ hist' = <<>>
    /\ KeepFirst
    /\ UNCHANGED <<cmdVars, sqlite3Found, obj, gl, ws, files>>

\* wsBackupPath = createBackup(wsUri.fsPath)
CreateBackupWs ==
    /\ pc = "createBackupWs"
    /\ \/ /\ files' = files \cup {BackupFile("ws", callNo, ws)}
          /\ wsBackupPath' = BackupPath("ws", callNo)
          /\ hist' = Append(hist, "backupWs")
          /\ pc' = "createBackupGl"
          /\ KeepFirst
       \/ /\ Throw(OnBackupError)
          /\ UNCHANGED <<files, wsBackupPath, hist>>
    /\ UNCHANGED <<cmdVars, sqlite3Found, obj, callsLeft, gl, ws, callNo, glBackupPath,
                   wsIntegrity, inserted, current, glPre, wsPre>>

\* glBackupPath = createBackup(glUri.fsPath)
CreateBackupGl ==
    /\ pc = "createBackupGl"
    /\ \/ /\ files' = files \cup {BackupFile("gl", callNo, gl)}
          /\ glBackupPath' = BackupPath("gl", callNo)
          /\ hist' = Append(hist, "backupGl")
          /\ pc' = "checkWsPre"
          /\ KeepFirst
       \/ /\ Throw(OnBackupError)
          /\ UNCHANGED <<files, glBackupPath, hist>>
    /\ UNCHANGED <<cmdVars, sqlite3Found, obj, callsLeft, gl, ws, callNo, wsBackupPath,
                   wsIntegrity, inserted, current, glPre, wsPre>>

\* const wsIntegrity = await checkIntegrity(wsUri.fsPath)
CheckWsPre ==
    /\ pc = "checkWsPre"
    /\ \E ok \in IntegrityOutcomes :
          /\ wsIntegrity' = ok
          /\ hist' = Append(hist, IF ok THEN "wsPreOk" ELSE "wsPreBad")
    /\ pc' = "checkGlPre"
    /\ KeepFirst
    /\ UNCHANGED <<cmdVars, sqlite3Found, obj, callsLeft, gl, ws, files, callNo, wsBackupPath,
                   glBackupPath, inserted, current, glPre, wsPre>>

\* const glIntegrity = await checkIntegrity(glUri.fsPath); the throw that follows
CheckGlPre ==
    /\ pc = "checkGlPre"
    /\ \E ok \in IntegrityOutcomes :
          /\ hist' = Append(hist, IF ok THEN "glPreOk" ELSE "glPreBad")
          /\ IF IntegrityPassed(wsIntegrity, ok)
             THEN pc' = "insertKV" /\ KeepFirst
             ELSE Throw(OnIntegrityError)
    /\ UNCHANGED <<cmdVars, sqlite3Found, obj, callsLeft, gl, ws, files, callNo, wsBackupPath,
                   glBackupPath, wsIntegrity, inserted, current, glPre, wsPre>>

\* the kvPairs loops and inserted = insertKVWithCLI(glUri.fsPath, kvPairs)
InsertKV ==
    /\ pc = "insertKV"
    /\ LET pairs == KvPairs(obj)
       IN IF pairs = <<>>
          THEN /\ pc' = "readIndex"
               /\ KeepFirst
               /\ UNCHANGED <<gl, inserted, hist>>
          ELSE \/ /\ sqlite3Found
                  /\ gl' = InsertOrIgnoreAll(gl, pairs)
                  /\ inserted' = InsertedCount(gl, pairs)
                  /\ hist' = Append(hist, "insert")
                  /\ pc' = "readIndex"
                  /\ KeepFirst
               \/ /\ Throw(OnInsertError)
                  /\ hist' = Append(hist, "insertFailed")
                  /\ UNCHANGED <<gl, inserted>>
    /\ UNCHANGED <<cmdVars, sqlite3Found, obj, callsLeft, ws, files, callNo, wsBackupPath,
                   glBackupPath, wsIntegrity, current, glPre, wsPre>>

\* readItemTableWithCLI(wsUri.fsPath, 'composer.composerData') and JSON.parse
ReadIndex ==
    /\ pc = "readIndex"
    /\ \E text \in ReadOutcomes :
          IF ParseThrows(text)
          THEN /\ Throw("threw")
               /\ hist' = Append(hist, "parseFailed")
               /\ UNCHANGED current
          ELSE /\ current' = ParseOrEmpty(text)
               /\ hist' = Append(hist, IF text = ws THEN "read" ELSE "readNull")
               /\ pc' = "updateIndex"
               /\ KeepFirst
    /\ UNCHANGED <<cmdVars, sqlite3Found, obj, callsLeft, gl, ws, files, callNo, wsBackupPath,
                   glBackupPath, wsIntegrity, inserted, glPre, wsPre>>

\* the additions loop and updateItemTableWithCLI(..., mergedJson)
UpdateIndex ==
    /\ pc = "updateIndex"
    /\ LET additions == Additions(current, obj)
       IN IF additions = <<>>
          THEN /\ pc' = "checkWsPost"
               /\ KeepFirst
               /\ UNCHANGED <<ws, hist>>
          ELSE \/ /\ sqlite3Found
                  /\ ws' = Merged(current, additions)
                  /\ hist' = Append(hist, "writeIndex")
                  /\ pc' = "checkWsPost"
                  /\ KeepFirst
               \/ /\ Throw(OnUpdateError)
                  /\ hist' = Append(hist, "writeFailed")
                  /\ UNCHANGED ws
    /\ UNCHANGED <<cmdVars, sqlite3Found, obj, callsLeft, gl, files, callNo, wsBackupPath,
                   glBackupPath, wsIntegrity, inserted, current, glPre, wsPre>>

\* const wsIntegrityAfter = await checkIntegrity(wsUri.fsPath)
CheckWsPost ==
    /\ pc = "checkWsPost"
    /\ \E ok \in IntegrityOutcomes :
          /\ wsIntegrity' = ok
          /\ hist' = Append(hist, IF ok THEN "wsPostOk" ELSE "wsPostBad")
    /\ pc' = "checkGlPost"
    /\ KeepFirst
    /\ UNCHANGED <<cmdVars, sqlite3Found, obj, callsLeft, gl, ws, files, callNo, wsBackupPath,
                   glBackupPath, inserted, current, glPre, wsPre>>

\* const glIntegrityAfter = await checkIntegrity(glUri.fsPath); the throw that follows
CheckGlPost ==
    /\ pc = "checkGlPost"
    /\ \E ok \in IntegrityOutcomes :
          /\ hist' = Append(hist, IF ok THEN "glPostOk" ELSE "glPostBad")
          /\ IF IntegrityPassed(wsIntegrity, ok)
             THEN pc' = "readVerify" /\ KeepFirst
             ELSE Throw(OnIntegrityError)
    /\ UNCHANGED <<cmdVars, sqlite3Found, obj, callsLeft, gl, ws, files, callNo, wsBackupPath,
                   glBackupPath, wsIntegrity, inserted, current, glPre, wsPre>>

\* verifyJson = readItemTableWithCLI(...); JSON.parse(verifyJson)
ReadVerify ==
    /\ pc = "readVerify"
    /\ \E text \in ReadOutcomes :
          IF text.kind = "malformed"
          THEN /\ Throw("threw")
               /\ hist' = Append(hist, "verifyFailed")
          ELSE /\ pc' = "removeBackupWs"
               /\ KeepFirst
               /\ UNCHANGED hist
    /\ UNCHANGED <<cmdVars, sqlite3Found, obj, callsLeft, gl, ws, files, callNo, wsBackupPath,
                   glBackupPath, wsIntegrity, inserted, current, glPre, wsPre>>

\* removeBackup(wsBackupPath): an unlink that fails is logged, not thrown
RemoveBackupWs ==
    /\ pc = "removeBackupWs"
    /\ \/ /\ files' = Unlinked(files, wsBackupPath)
          /\ hist' = Append(hist, "rmBackupWs")
       \/ UNCHANGED <<files, hist>>
    /\ pc' = "removeBackupGl"
    /\ KeepFirst
    /\ UNCHANGED <<cmdVars, sqlite3Found, obj, callsLeft, gl, ws, callNo, wsBackupPath,
                   glBackupPath, wsIntegrity, inserted, current, glPre, wsPre>>

\* removeBackup(glBackupPath) and return { inserted, verification }
RemoveBackupGl ==
    /\ pc = "removeBackupGl"
    /\ \/ /\ files' = Unlinked(files, glBackupPath)
          /\ hist' = Append(hist, "rmBackupGl")
       \/ UNCHANGED <<files, hist>>
    /\ pc' = "returned"
    /\ firstResult' = IF callNo = 1 THEN "returned" ELSE firstResult
    /\ glFirst' = IF callNo = 1 THEN gl ELSE glFirst
    /\ wsFirst' = IF callNo = 1 THEN ws ELSE wsFirst
    /\ UNCHANGED <<cmdVars, sqlite3Found, obj, callsLeft, gl, ws, callNo, wsBackupPath,
                   glBackupPath, wsIntegrity, inserted, current, glPre, wsPre>>

Next ==
    \/ Call
    \/ CreateBackupWs
    \/ CreateBackupGl
    \/ CheckWsPre
    \/ CheckGlPre
    \/ InsertKV
    \/ ReadIndex
    \/ UpdateIndex
    \/ CheckWsPost
    \/ CheckGlPost
    \/ ReadVerify
    \/ RemoveBackupWs
    \/ RemoveBackupGl

Spec == Init /\ [][Next]_vars

SpecTwice == InitTwice /\ [][Next]_vars

\* ================================================================= claims
Events == {hist[i] : i \in 1..Len(hist)}
Before(e1, e2) == \E i, j \in 1..Len(hist) : i < j /\ hist[i] = e1 /\ hist[j] = e2
HasFile(path) == \E f \in files : PathOf(f) = path
Ended == pc \in {"returned", "threw"}

\* C1: within one call the Index is never written before the payload insert
\* batch has completed (whenever the Index differs from its state at the start of
\* the call, the whole batch is in the payload store), and when the batch fails
\* the Index is not written at all.
C1_InsertBeforeIndexWrite ==
    /\ ("writeIndex" \in Events /\ KvPairs(obj) # <<>>) => Before("insert", "writeIndex")
    /\ ~Before("writeIndex", "insert") /\ ~Before("writeIndex", "insertFailed")
    /\ "insertFailed" \in Events => ("writeIndex" \notin Events /\ ws = wsPre)
    /\ ws # wsPre => \A i \in 1..Len(KvPairs(obj)) : KvPairs(obj)[i].key \in DOMAIN gl

C1_Witness ==
    /\ pc = "checkWsPost"
    /\ Before("insert", "writeIndex")
    /\ gl # glPre
    /\ ws # wsPre

\* C2: no write to either target store happens before a backup of both stores
\* exists (holding the stores as they were), and when creating either backup
\* fails the call has thrown with both stores unchanged.
C2_BackupBeforeWrite ==
    /\ (gl # glPre \/ ws # wsPre \/ "insert" \in Events \/ "writeIndex" \in Events)
          => /\ Len(hist) >= 2 /\ hist[1] = "backupWs" /\ hist[2] = "backupGl"
             /\ wsBackupPath # NoPath /\ glBackupPath # NoPath
    /\ (pc \in {"readIndex", "updateIndex", "checkWsPost", "checkGlPost", "readVerify"}
          \/ (pc = "threw" /\ (gl # glPre \/ ws # wsPre)))
          => /\ BackupFile("ws", callNo, wsPre) \in files
             /\ BackupFile("gl", callNo, glPre) \in files
    /\ (pc \notin {"idle", "createBackupWs", "createBackupGl"}
          /\ (wsBackupPath = NoPath \/ glBackupPath = NoPath))
          => (pc = "threw" /\ gl = glPre /\ ws = wsPre)

C2_Witness ==
    /\ pc = "threw"
    /\ hist = <<"backupWs">>
    /\ glBackupPath = NoPath
    /\ KvPairs(obj) # <<>>

\* C3: when the integrity check before the import fails for the workspace store
\* or for the global store, the call throws and neither store has been modified.
C3_PreIntegrityFailureAborts ==
    ("wsPreBad" \in Events \/ "glPreBad" \in Events)
        => /\ pc \in {"checkGlPre", "threw"}
           /\ gl = glPre
           /\ ws = wsPre
           /\ "insert" \notin Events
           /\ "writeIndex" \notin Events

C3_Witness ==
    /\ pc = "threw"
    /\ hist = <<"backupWs", "backupGl", "wsPreOk", "glPreBad">>
    /\ KvPairs(obj) # <<>>
    /\ Additions(ParseOrEmpty(ws), obj) # <<>>

\* C4: a backup file is removed only after the integrity check after the import
\* has passed for both stores, and whenever a call has thrown after both backups
\* were created, both backup files still exist.
C4_BackupRemovedOnlyAfterPostCheck ==
    /\ \A e \in {"rmBackupWs", "rmBackupGl"} :
          e \in Events => (Before("wsPostOk", e) /\ Before("glPostOk", e))
    /\ \A p \in {wsBackupPath, glBackupPath} :
          (p # NoPath /\ ~HasFile(p)) => ({"wsPostOk", "glPostOk"} \subseteq Events)
    /\ (pc = "threw" /\ wsBackupPath # NoPath /\ glBackupPath # NoPath)
          => (HasFile(wsBackupPath) /\ HasFile(glBackupPath))

C4_Witness ==
    /\ pc = "returned"
    /\ "rmBackupWs" \in Events
    /\ "rmBackupGl" \in Events
    /\ ~HasFile(wsBackupPath)
    /\ ~HasFile(glBackupPath)

\* C5: when the integrity check fails after the payload insertion, the call
\* reports a failure (it throws), neither store is restored (each keeps what the
\* call wrote into it) and the backup files of both stores still exist.
C5_PostIntegrityFailureKeepsBackups ==
    ("wsPostBad" \in Events \/ "glPostBad" \in Events)
        => /\ pc \in {"checkGlPost", "threw"}
           /\ "insert" \in Events => gl = InsertOrIgnoreAll(glPre, KvPairs(obj))
           /\ "writeIndex" \in Events => ws = Merged(current, Additions(current, obj))
           /\ BackupFile("ws", callNo, wsPre) \in files
           /\ BackupFile("gl", callNo, glPre) \in files

C5_Witness ==
    /\ pc = "threw"
    /\ "insert" \in Events
    /\ "writeIndex" \in Events
    /\ "glPostBad" \in Events
    /\ gl # glPre
    /\ ws # wsPre

\* the keys the snapshot asks to store: one per payload, one per fragment that
\* has a key and a value
BubbleEntries ==
    UNION { {obj.bubbles[i].list[j] : j \in 1..Len(obj.bubbles[i].list)} :
            i \in 1..Len(obj.bubbles) }
SnapshotKeys ==
    {ComposerKey(obj.composers[i].id) : i \in 1..Len(obj.composers)}
        \cup {b.key : b \in {e \in BubbleEntries : e.key # <<>> /\ e.value # NoValue}}
SnapshotIds ==
    {obj.allComposers[i].composerId : i \in 1..Len(obj.allComposers)} \ {NoId}
IndexIds(doc) == {doc.allComposers[i].composerId : i \in 1..Len(doc.allComposers)}

AllInserted == SnapshotKeys \subseteq DOMAIN gl
IndexHasAll == SnapshotIds \subseteq IndexIds(ws)
Untouched == gl = glPre /\ ws = wsPre

\* C6 as stated: after the call returns or throws, either every absent key of the
\* snapshot has been inserted and the Index contains every snapshot record, or
\* both target stores equal their state before the call.
C6_AllOrNothing == Ended => ((AllInserted /\ IndexHasAll) \/ Untouched)

\* C6 amended: after a return every absent key of the snapshot has been inserted
\* and the Index contains every snapshot record that has a recordId; after a
\* throw the stores are not restored: the payload store keeps what was inserted
\* even when the Index is unchanged, and the Index is changed only after the
\* whole batch was inserted, and then contains every snapshot record.
C6_AllOrNothingOnReturnOnly ==
    /\ pc = "returned" => (AllInserted /\ IndexHasAll)
    /\ pc = "threw" => (ws = wsPre \/ (IndexHasAll /\ AllInserted))
    /\ (pc = "threw" /\ "insert" \in Events) => AllInserted

C6_Witness ==
    /\ pc = "threw"
    /\ gl # glPre
    /\ AllInserted
    /\ ws = wsPre
    /\ ~IndexHasAll

\* C7: merging the same snapshot twice in succession leaves the same Index and
\* the same payload keys and values as merging it once.
C7_IdempotentMerge ==
    (callNo >= 2 /\ pc = "returned" /\ firstResult = "returned")
        => (gl = glFirst /\ ws = wsFirst)

\* C8: the inserted count that importFromObject returns is the number of keys
\* that were absent before the call and inserted by it, hence 0 when the same
\* snapshot is merged a second time.
C8_InsertedCountIsActual ==
    pc = "returned"
        => /\ inserted = Cardinality(DOMAIN gl \ DOMAIN glPre)
           /\ (callNo >= 2 /\ firstResult = "returned") => inserted = 0

\* the value of the first pair of the batch stored under key k
FirstValue(pairs, k) ==
    pairs[CHOOSE i \in 1..Len(pairs) :
            /\ pairs[i].key = k
            /\ \A j \in 1..(i - 1) : pairs[j].key # k].value
BatchOf ==
    [i \in 1..Len(obj.composers) |->
        [key |-> ComposerKey(obj.composers[i].id), value |-> obj.composers[i].value]]
    \o BubblePairs(obj.bubbles)

\* C9: every key the payload store held before the call keeps its value, whatever
\* the snapshot holds under that key, and a key that was absent and occurs twice
\* in the batch is stored with the first of its values.
C9_NeverOverwrites ==
    /\ \A k \in DOMAIN glPre : k \in DOMAIN gl /\ gl[k] = glPre[k]
    /\ "insert" \in Events
          => \A k \in SnapshotKeys \ DOMAIN glPre :
                k \in DOMAIN gl /\ gl[k] = FirstValue(BatchOf, k)

C9_Witness ==
    /\ "insert" \in Events
    /\ \E i \in 1..Len(BatchOf) :
          /\ BatchOf[i].key \in DOMAIN glPre
          /\ BatchOf[i].value # glPre[BatchOf[i].key]
    /\ \E i, j \in 1..Len(BatchOf) :
          /\ i < j
          /\ BatchOf[i].key = BatchOf[j].key
          /\ BatchOf[i].value # BatchOf[j].value
          /\ BatchOf[i].key \notin DOMAIN glPre

\* the snapshot records whose recordId the list does not hold, each once, in
\* snapshot order
NewRecords(list) ==
    LET all == obj.allComposers
        keep(i) == /\ all[i].composerId # NoId
                   /\ all[i].composerId \notin {list[j].composerId : j \in 1..Len(list)}
                   /\ \A j \in 1..(i - 1) : all[j].composerId # all[i].composerId
        F[i \in 0..Len(all)] ==
            IF i = 0 THEN <<>>
            ELSE IF keep(i) THEN Append(F[i - 1], all[i]) ELSE F[i - 1]
    IN F[Len(all)]

\* C10: after a successful call the Index's record list is the list it held
\* before the call, in the same order, followed by the snapshot records whose
\* recordId was not present, each once and in snapshot order.
C10_IndexIsOldListPlusAdditions ==
    pc = "returned"
        => ws.allComposers = wsPre.allComposers \o NewRecords(wsPre.allComposers)

\* ======================================= transfer.js: buildExportObject
MaxSource == 3      \* records in the source Index
MaxSelected == 2    \* ids in selectedComposerIds

SeqRange(s) == {s[i] : i \in 1..Len(s)}

RECURSIVE SetToSeq(_)
SetToSeq(S) ==
    IF S = {} THEN <<>>
    ELSE LET x == CHOOSE y \in S : TRUE IN <<x>> \o SetToSeq(S \ {x})

IsPrefix(p, s) == Len(p) <= Len(s) /\ SubSeq(s, 1, Len(p)) = p

\* if (Array.isArray(selectedComposerIds) && selectedComposerIds.length > 0)
\*     allComposers = allComposers.filter(c => c && set.has(c.composerId))
\* (a record without composerId is in no set of selected ids)
FilterSelected(all, sel) ==
    IF sel.isArray /\ Len(sel.ids) > 0
    THEN SelectSeq(all, LAMBDA c : c.composerId # NoId /\ c.composerId \in SeqRange(sel.ids))
    ELSE all

\* allComposers.map(c => c.composerId).filter(Boolean)
RECURSIVE ExportIds(_)
ExportIds(all) ==
    IF all = <<>> THEN <<>>
    ELSE (IF Head(all).composerId = NoId THEN <<>> ELSE <<Head(all).composerId>>)
         \o ExportIds(Tail(all))

\* readCursorDiskKV: null (NoValue here) for a missing row and for !row.value
ReadCursorDiskKV(store, key) ==
    IF key \in DOMAIN store /\ store[key] # NoValue THEN store[key] ELSE NoValue

\* SQLite's LIKE compares ASCII letters without regard to case
Fold(c) ==
    LET UpperCase == <<"A", "B", "C", "D", "E", "F", "G", "H", "I", "J", "K", "L", "M",
                       "N", "O", "P", "Q", "R", "S", "T", "U", "V", "W", "X", "Y", "Z">>
        LowerCase == <<"a", "b", "c", "d", "e", "f", "g", "h", "i", "j", "k", "l", "m",
                       "n", "o", "p", "q", "r", "s", "t", "u", "v", "w", "x", "y", "z">>
    IN IF \E i \in 1..Len(UpperCase) : UpperCase[i] = c
       THEN LowerCase[CHOOSE i \in 1..Len(UpperCase) : UpperCase[i] = c]
       ELSE c

\* key LIKE pattern: "%" stands for any run of characters, "_" for any one
\* character, every other character for itself up to case
RECURSIVE Like(_, _)
Like(pattern, key) ==
    IF pattern = <<>> THEN key = <<>>
    ELSE IF Head(pattern) = "%"
         THEN \E n \in 0..Len(key) : Like(Tail(pattern), SubSeq(key, n + 1, Len(key)))
         ELSE /\ key # <<>>
              /\ Head(pattern) = "_" \/ Fold(Head(pattern)) = Fold(Head(key))
              /\ Like(Tail(pattern), Tail(key))

\* row.key.split(':') has at least three parts, the first being 'bubbleId'
HasBubbleParts(key) ==
    /\ key # <<>>
    /\ key[1] = "bubbleId:"
    /\ \E i \in 2..Len(key) : key[i] = ":"

\* parts.slice(2).join(':'): what follows the second colon of the key
BubbleIdOf(key) ==
    LET second == CHOOSE i \in 2..Len(key) :
                      key[i] = ":" /\ \A j \in 2..(i - 1) : key[j] # ":"
    IN SubSeq(key, second + 1, Len(key))

\* SELECT key, value FROM cursorDiskKV WHERE key LIKE ? bound to
\* `bubbleId:<id>:%`; the rows whose key splits into three parts or more are
\* pushed as { key, value, bubbleId }
ReadBubblesForComposer(store, id) ==
    LET pattern == <<"bubbleId:">> \o id \o <<":", "%">>
        rows == SetToSeq({k \in DOMAIN store : Like(pattern, k) /\ HasBubbleParts(k)})
    IN [i \in 1..Len(rows) |-> Bubble(rows[i], store[rows[i]], BubbleIdOf(rows[i]))]

\* listCursorDiskKVKeys(glDb, pattern).length
KeysLike(store, first) == Cardinality({k \in DOMAIN store : k # <<>> /\ k[1] = first})

\* composers[id] = val on an object: an existing key keeps its place
SetComposer(composers, id, value) ==
    IF \E i \in 1..Len(composers) : composers[i].id = id
    THEN [i \in 1..Len(composers) |->
            IF composers[i].id = id THEN [id |-> id, value |-> value] ELSE composers[i]]
    ELSE Append(composers, [id |-> id, value |-> value])

\* bubbles[id] = list on an object
SetBubbles(bubbles, id, list) ==
    IF \E i \in 1..Len(bubbles) : bubbles[i].composerId = id
    THEN [i \in 1..Len(bubbles) |->
            IF bubbles[i].composerId = id THEN [composerId |-> id, list |-> list]
            ELSE bubbles[i]]
    ELSE Append(bubbles, [composerId |-> id, list |-> list])

\* mutant: a record without payload is not reported
Missing_Unreported(missing, id) == missing

\* debugInfo.missingComposerData.push(id)
Missing(missing, id) == Append(missing, id)

\* for (const id of ids) { ... }
RECURSIVE ExportLoop(_, _, _)
ExportLoop(ids, store, acc) ==
    IF ids = <<>> THEN acc
    ELSE LET id == Head(ids)
             val == ReadCursorDiskKV(store, ComposerKey(id))
             composerBubbles == ReadBubblesForComposer(store, id)
         IN ExportLoop(Tail(ids), store,
               [composers |-> IF val # NoValue THEN SetComposer(acc.composers, id, val)
                              ELSE acc.composers,
                missing |-> IF val # NoValue THEN acc.missing ELSE Missing(acc.missing, id),
                bubbles |-> IF Len(composerBubbles) > 0
                            THEN SetBubbles(acc.bubbles, id, composerBubbles)
                            ELSE acc.bubbles])

\* what buildExportObject returns for an Index document that was read and parsed
BuildExportObject(index, store, sel) ==
    IF index.kind # "json" THEN EmptyExport
    ELSE LET allComposers == FilterSelected(index.allComposers, sel)
             ids == ExportIds(allComposers)
             out == ExportLoop(ids, store, [composers |-> <<>>, missing |-> <<>>, bubbles |-> <<>>])
         IN [allComposers |-> allComposers,
             composers |-> out.composers,
             bubbles |-> out.bubbles,
             debugInfo |->
                [totalComposers |-> Len(ids),
                 composerDataKeysFound |-> KeysLike(store, "composerData:"),
                 bubbleKeysFound |-> KeysLike(store, "bubbleId:"),
                 missingComposerData |-> out.missing,
                 composersWithData |-> Len(out.composers),
                 composersWithBubbles |-> Len(out.bubbles)]]

\* ------------------------------------------------------- inputs of an export
valF == <<"f", " ", "a">>    \* a fragment payload naming its fragment and its record

SourceEntries == {Entry(idA, "s"), Entry(idB, "s"), Entry(idC, "s"), Entry(NoId, "s")}

SourceWsChoices ==
    {AbsentDoc, MalformedDoc}
        \cup {JsonDoc(l, "o1") : l \in SeqsUpTo(SourceEntries, MaxSource)}

SourceGlChoices ==
    { EmptyStore,
      (ComposerKey(idA) :> valX),
      (ComposerKey(idB) :> valQ) @@ (BubbleKey(idB, fragF) :> valF),
      (ComposerKey(idA) :> valX) @@ (ComposerKey(idB) :> valQ) @@ (ComposerKey(idC) :> valX)
          @@ (BubbleKey(idA, fragF) :> valF) @@ (BubbleKey(idB, fragF) :> valF)
          @@ (BubbleKey(idC, fragF) :> valF),
      (ComposerKey(idB) :> NoValue) @@ (BubbleKey(idA, fragF) :> valF) }

Selections ==
    {NoSelection} \cup {Selection(l) : l \in SeqsUpTo({idA, idB, idC}, MaxSelected)}

\* One buildExportObject call on any source stores and any selection
InitExport ==
    /\ sqlite3Found = TRUE
    /\ obj = EmptySnapshot
    /\ gl = EmptyStore
    /\ ws = AbsentDoc
    /\ callsLeft = 0
    /\ Locals
    /\ srcWs \in SourceWsChoices
    /\ srcGl \in SourceGlChoices
    /\ selectedComposerIds \in Selections
    /\ exp = EmptyExport
    /\ cloneResult = EmptyClone
    /\ composerIdsToRemove = <<>>
    /\ NoLocal
    /\ otherCall = NoCall
    /\ backupPath = NoPath
    /\ srcWsPre = srcWs
    /\ file = NoFile
    /\ step = "export"

\* mutant: the export opens the stores for writing and saves an empty Index
\* where it could read none
BuildExport_Saving ==
    /\ step = "export"
    /\ exp' = BuildExportObject(srcWs, srcGl, selectedComposerIds)
    /\ step' = "exported"
    /\ srcWs' = IF srcWs.kind = "json" THEN srcWs ELSE JsonDoc(<<>>, "o1")
    /\ UNCHANGED <<sqlite3Found, obj, callsLeft, gl, ws, files, pc, callNo, wsBackupPath,
                   glBackupPath, wsIntegrity, inserted, current, glPre, wsPre, hist,
                   firstResult, glFirst, wsFirst, srcGl, selectedComposerIds,
                   cloneResult, composerIdsToRemove, backupPath, srcWsPre, file, localVars, otherCall>>

\* buildExportObject(wsUri, glUri, selectedComposerIds): the stores are opened
\* read-only (which may fail), the Index row is parsed (which throws on a
\* malformed text), the snapshot is built and returned
BuildExport ==
    /\ step = "export"
    /\ \/ /\ ~ParseThrows(srcWs)
          /\ exp' = BuildExportObject(srcWs, srcGl, selectedComposerIds)
          /\ step' = "exported"
          /\ UNCHANGED hist
       \/ /\ ParseThrows(srcWs)
          /\ step' = "exportThrew"
          /\ hist' = Append(hist, "exportParseFailed")
          /\ UNCHANGED exp
       \/ /\ step' = "exportThrew"
          /\ UNCHANGED <<exp, hist>>
    /\ UNCHANGED <<sqlite3Found, obj, callsLeft, gl, ws, files, pc, callNo, wsBackupPath,
                   glBackupPath, wsIntegrity, inserted, current, glPre, wsPre,
                   firstResult, glFirst, wsFirst, srcWs, srcGl, selectedComposerIds,
                   cloneResult, composerIdsToRemove, backupPath, srcWsPre, file, localVars, otherCall>>

NextExport == BuildExport

SpecExport == InitExport /\ [][NextExport]_vars

\* ------------------------------------------------------ claims on the export
Count(seq, x) == Cardinality({i \in 1..Len(seq) : seq[i] = x})
SelectedIds == SeqRange(selectedComposerIds.ids)
ExportedIds == SeqRange(ExportIds(exp.allComposers))

\* C11: for every Index and every list ids of selected record ids, the empty
\* list included, buildExportObject returns exactly the Index records whose
\* recordId is in ids, and no payload and no fragment of any other record.
C11_ExportExactlySelected ==
    (step = "exported" /\ selectedComposerIds.isArray /\ srcWs.kind = "json")
        => /\ exp.allComposers
                = SelectSeq(srcWs.allComposers, LAMBDA c : c.composerId \in SelectedIds)
           /\ \A i \in 1..Len(exp.composers) : exp.composers[i].id \in SelectedIds
           /\ \A i \in 1..Len(exp.bubbles) : exp.bubbles[i].composerId \in SelectedIds

RECURSIVE ReplaceAll(_, _, _)
ReplaceAll(text, old, new) ==
    IF text = <<>> THEN <<>>
    ELSE IF old = <<>>
         THEN IF Len(text) = 1 THEN text
              ELSE <<Head(text)>> \o new \o ReplaceAll(Tail(text), old, new)
         ELSE IF IsPrefix(old, text)
              THEN new \o ReplaceAll(SubSeq(text, Len(old) + 1, Len(text)), old, new)
              ELSE <<Head(text)>> \o ReplaceAll(Tail(text), old, new)

\* A structured document is the text { field , field , ... } ; a field is its
\* key (one character, colon included) followed by the characters of its value.
RECURSIVE SplitFields(_)
SplitFields(inner) ==
    IF \A i \in 1..Len(inner) : inner[i] # ","
    THEN <<inner>>
    ELSE LET n == CHOOSE i \in 1..Len(inner) :
                     inner[i] = "," /\ \A j \in 1..(i - 1) : inner[j] # ","
         IN <<SubSeq(inner, 1, n - 1)>> \o SplitFields(SubSeq(inner, n + 1, Len(inner)))

RECURSIVE JoinFields(_)
JoinFields(fields) ==
    IF fields = <<>> THEN <<>>
    ELSE IF Len(fields) = 1 THEN fields[1]
         ELSE fields[1] \o <<",">> \o JoinFields(Tail(fields))

\* JSON.parse(text) succeeds on a structured document
Decodes(text) ==
    /\ Len(text) >= 2
    /\ text[1] = "{"
    /\ text[Len(text)] = "}"
    /\ \A i \in 2..(Len(text) - 1) : text[i] \notin {"{", "}"}

\* JSON.parse(text): the fields of the document, in order
JsonParse(text) ==
    IF Len(text) = 2 THEN <<>> ELSE SplitFields(SubSeq(text, 2, Len(text) - 1))

\* JSON.stringify(parsed)
JsonStringify(fields) == <<"{">> \o JoinFields(fields) \o <<"}">>

HasKey(field, key) == field # <<>> /\ field[1] = key

\* parsed[key] = value: an existing field keeps its place, a new one goes last
SetField(fields, key, value) ==
    IF \E i \in 1..Len(fields) : HasKey(fields[i], key)
    THEN [i \in 1..Len(fields) |-> IF HasKey(fields[i], key) THEN <<key>> \o value ELSE fields[i]]
    ELSE Append(fields, <<key>> \o value)

\* parsed[key], <<>> when the document has no such field
GetField(fields, key) ==
    IF \E i \in 1..Len(fields) : HasKey(fields[i], key)
    THEN Tail(fields[CHOOSE i \in 1..Len(fields) : HasKey(fields[i], key)])
    ELSE <<>>

\* idMap[old], bubbleIdMap[old]: NoId stands for undefined
Lookup(map, old) ==
    IF \E i \in 1..Len(map) : map[i].old = old
    THEN map[CHOOSE i \in 1..Len(map) : map[i].old = old].new
    ELSE NoId

\* idMap[old] = new on an object: an existing key keeps its place
SetMap(map, old, new) ==
    IF \E i \in 1..Len(map) : map[i].old = old
    THEN [i \in 1..Len(map) |-> IF map[i].old = old THEN [old |-> old, new |-> new] ELSE map[i]]
    ELSE Append(map, [old |-> old, new |-> new])

\* Date.now() at the call
Now == 1000

\* mutant: every clone is stamped with the clock alone
ClonedEntry_SameTick(c, newId, idx) ==
    [composerId |-> newId, name |-> c.name, createdAt |-> Now, lastUpdatedAt |-> Now]

\* { ...c, composerId: newId, createdAt: now + idx, lastUpdatedAt: now + idx }
ClonedEntry(c, newId, idx) ==
    [composerId |-> newId, name |-> c.name, createdAt |-> Now + idx, lastUpdatedAt |-> Now + idx]

\* first loop: for (const c of obj.allComposers || []); draws[k + 1] is the
\* next value of randomUUID()
RECURSIVE CloneComposers(_, _, _)
CloneComposers(all, draws, acc) ==
    IF all = <<>> THEN acc
    ELSE LET c == Head(all)
         IN IF c.composerId = NoId THEN CloneComposers(Tail(all), draws, acc)
            ELSE LET newId == draws[acc.k + 1]
                 IN CloneComposers(Tail(all), draws,
                       [idMap |-> SetMap(acc.idMap, c.composerId, newId),
                        allComposers |-> Append(acc.allComposers,
                                                ClonedEntry(c, newId, Len(acc.allComposers))),
                        k |-> acc.k + 1])

\* the two replacements on a fragment's value, in the order of the code
CloneBubbleValue(value, oldBubbleId, newBubbleId, oldComposerId, newComposerId) ==
    ReplaceAll(ReplaceAll(value, oldBubbleId, newBubbleId), oldComposerId, newComposerId)

\* mutant: the key is built with the two ids in the wrong places
NewKey_Swapped(newComposerId, newBubbleId) == BubbleKey(newBubbleId, newComposerId)

\* const newKey = `bubbleId:${newComposerId}:${newBubbleId}`
NewKey(newComposerId, newBubbleId) == BubbleKey(newComposerId, newBubbleId)

\* inner loop: for (const bubble of composerBubbles)
RECURSIVE CloneBubblesOf(_, _, _, _, _)
CloneBubblesOf(list, oldComposerId, newComposerId, draws, acc) ==
    IF list = <<>> THEN acc
    ELSE LET bubble == Head(list)
         IN IF bubble.bubbleId = NoId
            THEN CloneBubblesOf(Tail(list), oldComposerId, newComposerId, draws, acc)
            ELSE LET newBubbleId == draws[acc.k + 1]
                     nb == Bubble(NewKey(newComposerId, newBubbleId),
                                  CloneBubbleValue(bubble.value, bubble.bubbleId, newBubbleId,
                                                   oldComposerId, newComposerId),
                                  newBubbleId)
                 IN CloneBubblesOf(Tail(list), oldComposerId, newComposerId, draws,
                       [bubbleIdMap |-> SetMap(acc.bubbleIdMap, bubble.bubbleId, newBubbleId),
                        newBubbles |-> Append(acc.newBubbles, nb),
                        k |-> acc.k + 1])

\* second loop: for (const [oldComposerId, composerBubbles] of Object.entries(obj.bubbles || {}))
RECURSIVE CloneBubbles(_, _, _, _)
CloneBubbles(bubbles, idMap, draws, acc) ==
    IF bubbles = <<>> THEN acc
    ELSE LET oldComposerId == Head(bubbles).composerId
             newComposerId == Lookup(idMap, oldComposerId)
         IN IF newComposerId = NoId THEN CloneBubbles(Tail(bubbles), idMap, draws, acc)
            ELSE LET inner == CloneBubblesOf(Head(bubbles).list, oldComposerId, newComposerId,
                                  draws,
                                  [bubbleIdMap |-> acc.bubbleIdMap, newBubbles |-> <<>>,
                                   k |-> acc.k])
                 IN CloneBubbles(Tail(bubbles), idMap, draws,
                       [bubbleIdMap |-> inner.bubbleIdMap,
                        bubbles |-> IF Len(inner.newBubbles) > 0
                                    THEN SetBubbles(acc.bubbles, newComposerId, inner.newBubbles)
                                    ELSE acc.bubbles,
                        k |-> inner.k])

\* for (const [oldBubbleId, newBubbleId] of Object.entries(bubbleIdMap))
RECURSIVE ReplaceBubbleIds(_, _)
ReplaceBubbleIds(text, bubbleIdMap) ==
    IF bubbleIdMap = <<>> THEN text
    ELSE ReplaceBubbleIds(ReplaceAll(text, Head(bubbleIdMap).old, Head(bubbleIdMap).new),
                          Tail(bubbleIdMap))

\* the payload stored under the new id: decoded, composerId rewritten and
\* re-encoded when the text decodes, then the replacements on the text
CloneComposerData(text, oldId, newId, bubbleIdMap) ==
    LET serialized == IF Decodes(text)
                      THEN JsonStringify(SetField(JsonParse(text), "composerId:", newId))
                      ELSE text
    IN ReplaceBubbleIds(ReplaceAll(serialized, oldId, newId), bubbleIdMap)

\* third loop: for (const [oldId, val] of Object.entries(obj.composers || {}))
RECURSIVE CloneComposersData(_, _, _, _)
CloneComposersData(composers, idMap, bubbleIdMap, acc) ==
    IF composers = <<>> THEN acc
    ELSE LET oldId == Head(composers).id
             newId == Lookup(idMap, oldId)
         IN IF newId = NoId THEN CloneComposersData(Tail(composers), idMap, bubbleIdMap, acc)
            ELSE CloneComposersData(Tail(composers), idMap, bubbleIdMap,
                    SetComposer(acc, newId,
                                CloneComposerData(Head(composers).value, oldId, newId,
                                                  bubbleIdMap)))

\* JSON.stringify({ composerId: newId, tabs: [], bubbles: [], currentTab: null, version: 1 })
DefaultData(newId) ==
    JsonStringify(<< <<"composerId:">> \o newId, <<"tabs:", "[", "]">>, <<"bubbles:", "[", "]">>,
                     <<"currentTab:", "null">>, <<"version:", "1">> >>)

\* !cloned.composers[newId]: no entry, or an empty text
LacksData(composers, newId) ==
    \A i \in 1..Len(composers) : composers[i].id = newId => composers[i].value = NoValue

\* fourth loop: for (const [oldId, newId] of Object.entries(idMap))
RECURSIVE WithDefaults(_, _)
WithDefaults(idMap, composers) ==
    IF idMap = <<>> THEN composers
    ELSE LET newId == Head(idMap).new
         IN WithDefaults(Tail(idMap),
               IF LacksData(composers, newId)
               THEN SetComposer(composers, newId, DefaultData(newId))
               ELSE composers)

\* cloneExportObjectForCopy(obj), randomUUID() returning draws[1], draws[2], ...
CloneExportObjectForCopy(o, draws) ==
    LET first == CloneComposers(o.allComposers, draws,
                                [idMap |-> <<>>, allComposers |-> <<>>, k |-> 0])
        second == CloneBubbles(o.bubbles, first.idMap, draws,
                               [bubbleIdMap |-> <<>>, bubbles |-> <<>>, k |-> first.k])
        third == CloneComposersData(o.composers, first.idMap, second.bubbleIdMap, <<>>)
    IN [cloned |-> [allComposers |-> first.allComposers,
                    composers |-> WithDefaults(first.idMap, third),
                    bubbles |-> second.bubbles],
        idMap |-> first.idMap,
        bubbleIdMap |-> second.bubbleIdMap]

\* -------------------------------------------------------- inputs of a clone
fragG == <<"g">>

\* a record payload that decodes: it embeds the record's id and names a fragment
DocOf(id, frag) == JsonStringify(<< <<"composerId:">> \o id, <<"h:">> \o frag >>)
\* a record payload that decodes and has no composerId field
DocNoId(frag) == JsonStringify(<< <<"h:">> \o frag >>)
\* a fragment payload that decodes: it embeds the fragment's id and names its record
BubbleDoc(bid, cid) == JsonStringify(<< <<"bubbleId:">> \o bid, <<"c:">> \o cid >>)

\* values randomUUID() may return: pairwise distinct, none is an identifier of
\* the input; hexadecimal digits, so some hold a character that is an input
\* identifier on its own
NewIds ==
    { <<"7", "1">>, <<"8", "2">>, <<"9", "5">>, <<"6", "0">>, <<"3", "a">>, <<"f", "4">> }

\* the sequences of n pairwise distinct elements of S
RECURSIVE InjSeqs(_, _)
InjSeqs(S, n) ==
    IF n = 0 THEN {<<>>}
    ELSE UNION {{Append(s, x) : x \in S \ SeqRange(s)} : s \in InjSeqs(S, n - 1)}

\* how many times cloneExportObjectForCopy(o) calls randomUUID()
RECURSIVE BubbleDraws(_, _)
BubbleDraws(bubbles, ids) ==
    IF bubbles = <<>> THEN 0
    ELSE (IF Head(bubbles).composerId \in ids
          THEN Cardinality({j \in 1..Len(Head(bubbles).list) :
                               Head(bubbles).list[j].bubbleId # NoId})
          ELSE 0) + BubbleDraws(Tail(bubbles), ids)

RandomUUIDCalls(o) ==
    Len(ExportIds(o.allComposers)) + BubbleDraws(o.bubbles, SeqRange(ExportIds(o.allComposers)))

CloneComposersChoices ==
    { <<>>,
      <<[id |-> idA, value |-> DocOf(idA, fragF)]>>,
      <<[id |-> idA, value |-> DocNoId(fragF)], [id |-> idB, value |-> valF]>>,
      <<[id |-> idB, value |-> DocOf(idB, fragF)], [id |-> idC, value |-> valX]>> }

CloneBubblesChoices ==
    { <<>>,
      <<[composerId |-> idA, list |-> <<Bubble(BubbleKey(idA, fragF), valF, fragF)>>]>>,
      <<[composerId |-> idA,
         list |-> <<Bubble(BubbleKey(idA, fragF), BubbleDoc(fragF, idA), fragF),
                    Bubble(BubbleKey(idA, fragG), BubbleDoc(fragG, idA), fragG)>>]>>,
      <<[composerId |-> idA,
         list |-> <<Bubble(BubbleKey(idA, fragF), BubbleDoc(fragF, idA), fragF)>>],
        [composerId |-> idB,
         list |-> <<Bubble(BubbleKey(idB, fragF), BubbleDoc(fragF, idB), fragF)>>]>> }

CloneInputs ==
    [allComposers : SeqsUpTo(SnapshotEntries, MaxRecords),
     composers : CloneComposersChoices,
     bubbles : CloneBubblesChoices,
     debugInfo : {NoDebugInfo}]

\* One cloneExportObjectForCopy call on any snapshot
InitClone ==
    /\ sqlite3Found = TRUE
    /\ obj = EmptySnapshot
    /\ gl = EmptyStore
    /\ ws = AbsentDoc
    /\ callsLeft = 0
    /\ Locals
    /\ srcWs = AbsentDoc
    /\ srcGl = EmptyStore
    /\ selectedComposerIds = NoSelection
    /\ exp \in CloneInputs
    /\ cloneResult = EmptyClone
    /\ composerIdsToRemove = <<>>
    /\ NoLocal
    /\ otherCall = NoCall
    /\ backupPath = NoPath
    /\ srcWsPre = AbsentDoc
    /\ file = NoFile
    /\ step = "exported"

\* cloneExportObjectForCopy(exp), whatever randomUUID() returns
Clone ==
    /\ step = "exported"
    /\ \E draws \in InjSeqs(NewIds, RandomUUIDCalls(exp)) :
          cloneResult' = CloneExportObjectForCopy(exp, draws)
    /\ step' = "cloned"
    /\ UNCHANGED <<sqlite3Found, obj, callsLeft, gl, ws, files, pc, callNo, wsBackupPath,
                   glBackupPath, wsIntegrity, inserted, current, glPre, wsPre, hist,
                   firstResult, glFirst, wsFirst, srcWs, srcGl, selectedComposerIds,
                   exp, composerIdsToRemove, backupPath, srcWsPre, file, localVars, otherCall>>

NextClone == Clone

SpecClone == InitClone /\ [][NextClone]_vars

\* ------------------------------------------------------- claims on the clone
Cloned == step = "cloned"
News(map) == {map[i].new : i \in 1..Len(map)}
Injective(map) == \A i, j \in 1..Len(map) : map[i].new = map[j].new => i = j

\* the records of the input that carry a recordId, and the fragments filed
\* under them that carry a fragmentId
InputRecords == {i \in 1..Len(exp.allComposers) : exp.allComposers[i].composerId # NoId}
InputFragments ==
    {<<i, j>> \in (1..Len(exp.bubbles)) \X (1..2) :
        /\ j <= Len(exp.bubbles[i].list)
        /\ exp.bubbles[i].composerId \in SeqRange(ExportIds(exp.allComposers))
        /\ exp.bubbles[i].list[j].bubbleId # NoId}
InputIds ==
    SeqRange(ExportIds(exp.allComposers))
        \cup {exp.bubbles[f[1]].list[f[2]].bubbleId : f \in InputFragments}

\* C12: the generator returning pairwise distinct values that are no input
\* identifier, a snapshot with N records and M fragments is cloned with an
\* idMap of N entries and a bubbleIdMap of M entries, both injective, and no
\* output identifier is an input identifier.
C12_MapsAreBijections ==
    Cloned =>
        /\ Len(cloneResult.idMap) = Cardinality(InputRecords)
        /\ Len(cloneResult.bubbleIdMap) = Cardinality(InputFragments)
        /\ Injective(cloneResult.idMap)
        /\ Injective(cloneResult.bubbleIdMap)
        /\ (News(cloneResult.idMap) \cup News(cloneResult.bubbleIdMap)) \cap InputIds = {}

Contains(text, id) ==
    \E i \in 1..Len(text) : IsPrefix(id, SubSeq(text, i, Len(text)))

\* the text with every old fragmentId and old recordId replaced in one pass
RECURSIVE Remapped(_, _, _, _, _)
Remapped(text, oldF, newF, oldR, newR) ==
    IF text = <<>> THEN <<>>
    ELSE IF IsPrefix(oldF, text)
         THEN newF \o Remapped(SubSeq(text, Len(oldF) + 1, Len(text)), oldF, newF, oldR, newR)
         ELSE IF IsPrefix(oldR, text)
              THEN newR \o Remapped(SubSeq(text, Len(oldR) + 1, Len(text)), oldF, newF, oldR, newR)
              ELSE <<Head(text)>> \o Remapped(Tail(text), oldF, newF, oldR, newR)

\* the fragments the clone filed under a new recordId
ClonedBubblesOf(newId) ==
    IF \E i \in 1..Len(cloneResult.cloned.bubbles) :
          cloneResult.cloned.bubbles[i].composerId = newId
    THEN cloneResult.cloned.bubbles[
            CHOOSE i \in 1..Len(cloneResult.cloned.bubbles) :
               cloneResult.cloned.bubbles[i].composerId = newId].list
    ELSE <<>>

\* the payload the clone filed under a new recordId
ClonedDataOf(newId) ==
    IF \E i \in 1..Len(cloneResult.cloned.composers) :
          cloneResult.cloned.composers[i].id = newId
    THEN cloneResult.cloned.composers[
            CHOOSE i \in 1..Len(cloneResult.cloned.composers) :
               cloneResult.cloned.composers[i].id = newId].value
    ELSE NoValue

\* C13: a fragment whose payload text contains its own fragmentId or its
\* owning recordId is cloned with a payload in which the new fragmentId and the
\* new recordId stand, intact, wherever the old ones stood, and nothing else
\* is changed.
C13_FragmentReferencesRemapped ==
    Cloned =>
        \A f \in InputFragments :
            LET oldR == exp.bubbles[f[1]].composerId
                newR == Lookup(cloneResult.idMap, oldR)
                old == exp.bubbles[f[1]].list[f[2]]
                new == ClonedBubblesOf(newR)[f[2]]
            IN (Contains(old.value, old.bubbleId) \/ Contains(old.value, oldR))
                  => new.value = Remapped(old.value, old.bubbleId, new.bubbleId, oldR, newR)

\* C14: a record payload that decodes is cloned into a payload whose embedded
\* recordId field is the record's new recordId and in which a reference to a
\* fragment of the record is the new id of that fragment of that record.
C14_RecordPayloadRemapped ==
    Cloned =>
        \A n \in 1..Len(exp.composers) :
            LET oldR == exp.composers[n].id
                newR == Lookup(cloneResult.idMap, oldR)
                text == exp.composers[n].value
                out == ClonedDataOf(newR)
            IN (newR # NoId /\ Decodes(text))
                  => /\ Decodes(out)
                     /\ GetField(JsonParse(out), "composerId:") = newR
                     /\ \A f \in InputFragments :
                           (/\ exp.bubbles[f[1]].composerId = oldR
                            /\ GetField(JsonParse(text), "h:")
                                  = exp.bubbles[f[1]].list[f[2]].bubbleId)
                              => GetField(JsonParse(out), "h:")
                                    = ClonedBubblesOf(newR)[f[2]].bubbleId

\* C15: every record of the clone's record list has a payload under its new
\* recordId in the clone's payloads.
C15_EveryCloneHasPayload ==
    Cloned =>
        \A i \in 1..Len(cloneResult.cloned.allComposers) :
            ClonedDataOf(cloneResult.cloned.allComposers[i].composerId) # NoValue

\* ================================== export, clone, merge into another store
frag1 == <<"f", "1">>

\* the payload of a fragment that embeds its bubbleId, with or without a
\* reference to its record
Frag1Payloads == {JsonStringify(<< <<"bubbleId:">> \o frag1 >>), BubbleDoc(frag1, idA)}

\* source: Index [a], a payload for a, one fragment f1 of a; target: empty
InitRoundTrip ==
    /\ sqlite3Found \in BOOLEAN
    /\ obj = EmptySnapshot
    /\ gl = EmptyStore
    /\ ws \in {AbsentDoc, JsonDoc(<<>>, "o1")}
    /\ callsLeft = 0
    /\ Locals
    /\ srcWs = JsonDoc(<<Entry(idA, "s")>>, "o1")
    /\ srcGl \in {(ComposerKey(idA) :> DocOf(idA, frag1)) @@ (BubbleKey(idA, frag1) :> v) :
                    v \in Frag1Payloads}
    /\ selectedComposerIds \in {NoSelection, Selection(<<idA>>)}
    /\ exp = EmptyExport
    /\ cloneResult = EmptyClone
    /\ composerIdsToRemove = <<>>
    /\ NoLocal
    /\ otherCall = NoCall
    /\ backupPath = NoPath
    /\ srcWsPre = srcWs
    /\ file = NoFile
    /\ step = "export"

\* exp = cloned; importFromObject(exp, targetWsUri, glUri)
ImportCloned ==
    /\ step = "cloned"
    /\ pc = "idle"
    /\ obj' = cloneResult.cloned
    /\ callsLeft' = 1
    /\ step' = "merge"
    /\ UNCHANGED <<sqlite3Found, gl, ws, files, pc, callNo, wsBackupPath,
                   glBackupPath, wsIntegrity, inserted, current, glPre, wsPre, hist,
                   firstResult, glFirst, wsFirst, srcWs, srcGl, selectedComposerIds,
                   exp, cloneResult, composerIdsToRemove, backupPath, srcWsPre, file, localVars, otherCall>>

NextRoundTrip ==
    \/ BuildExport
    \/ Clone
    \/ ImportCloned
    \/ Next

SpecRoundTrip == InitRoundTrip /\ [][NextRoundTrip]_vars

KeysOf(store, first) == {k \in DOMAIN store : k # <<>> /\ k[1] = first}

\* C16: round trip. The source holding Index [a], one payload for a and one
\* fragment f1 whose payload has bubbleId f1, export then clone then import into
\* an empty target leaves in the target exactly one Index record, with a new
\* id a', exactly one payload key composerData:a', and exactly one fragment key
\* bubbleId:a':f1' whose payload's bubbleId field reads f1'.
C16_RoundTrip ==
    (step = "merge" /\ pc = "returned")
        => /\ ws.kind = "json"
           /\ Len(ws.allComposers) = 1
           /\ LET newA == ws.allComposers[1].composerId
              IN /\ newA \notin {idA, NoId}
                 /\ KeysOf(gl, "composerData:") = {ComposerKey(newA)}
                 /\ Cardinality(KeysOf(gl, "bubbleId:")) = 1
                 /\ \A k \in KeysOf(gl, "bubbleId:") :
                       LET newF == SubSeq(k, Len(newA) + 3, Len(k))
                       IN /\ k = BubbleKey(newA, newF)
                          /\ newF \notin {frag1, NoId}
                          /\ Decodes(gl[k])
                          /\ GetField(JsonParse(gl[k]), "bubbleId:") = newF

\* ============================ transfer.js: removeComposersFromWorkspace
\* currentList.filter(c => !c || !c.composerId || !removeSet.has(c.composerId))
NextList(currentList, ids) ==
    SelectSeq(currentList, LAMBDA c : c.composerId = NoId \/ c.composerId \notin SeqRange(ids))

\* mutant: the payloads and fragments of the removed records are deleted too
PayloadsAfterRemove_Deleted(store, ids) ==
    [k \in {key \in DOMAIN store :
               \A i \in 1..Len(ids) :
                  key # ComposerKey(ids[i])
                     /\ ~IsPrefix(<<"bubbleId:">> \o ids[i] \o <<":">>, key)} |-> store[k]]

\* the function is given the workspace store only; its one write is the
\* ItemTable row, so the table cursorDiskKV is what it was
PayloadsAfterRemove(store, ids) == store

\* readItemTableWithCLI(wsUri.fsPath, 'composer.composerData') on the source
SourceReadOutcomes ==
    IF sqlite3Found THEN {srcWs, AbsentDoc} ELSE {AbsentDoc}

RemoveIdsChoices == SeqsUpTo({idA, idB, idC}, MaxSelected)

RemoveWsChoices ==
    {AbsentDoc, MalformedDoc}
        \cup {JsonDoc(l, "o1") : l \in SeqsUpTo(SnapshotEntries, MaxIndex)}

\* One removeComposersFromWorkspace call on any source store and any ids
InitRemove ==
    /\ sqlite3Found \in BOOLEAN
    /\ obj = EmptySnapshot
    /\ gl = EmptyStore
    /\ ws = AbsentDoc
    /\ callsLeft = 0
    /\ Locals
    /\ srcWs \in RemoveWsChoices
    /\ srcGl \in {EmptyStore,
                  (ComposerKey(idA) :> valX) @@ (ComposerKey(idB) :> valQ)
                      @@ (BubbleKey(idA, fragF) :> valF)}
    /\ selectedComposerIds = NoSelection
    /\ exp = EmptyExport
    /\ cloneResult = EmptyClone
    /\ composerIdsToRemove \in RemoveIdsChoices
    /\ NoLocal
    /\ otherCall = NoCall
    /\ backupPath = NoPath
    /\ srcWsPre = srcWs
    /\ file = NoFile
    /\ step = "remove"

RemoveFrame ==
    UNCHANGED <<sqlite3Found, obj, callsLeft, gl, ws, pc, callNo, wsBackupPath,
                glBackupPath, wsIntegrity, inserted, glPre, wsPre,
                firstResult, glFirst, wsFirst, selectedComposerIds,
                exp, cloneResult, composerIdsToRemove, file, localVars, otherCall>>

\* removeComposersFromWorkspace(wsUri, composerIdsToRemove): nothing to do
\* for an empty list
RemoveCall ==
    /\ step = "remove"
    /\ step' = IF Len(composerIdsToRemove) = 0 THEN "removed" ELSE "removeCreateBackup"
    /\ srcWsPre' = srcWs
    /\ backupPath' = NoPath
    /\ UNCHANGED <<srcWs, srcGl, files, current, hist>>
    /\ RemoveFrame

\* const backupPath = createBackup(wsUri.fsPath), outside the try block
RemoveCreateBackup ==
    /\ step = "removeCreateBackup"
    /\ \/ /\ files' = files \cup {BackupFile("srcWs", callNo, srcWs)}
          /\ backupPath' = BackupPath("srcWs", callNo)
          /\ hist' = Append(hist, "cutBackup")
          /\ step' = "removeRead"
       \/ /\ step' = "removeThrew"
          /\ UNCHANGED <<files, backupPath, hist>>
    /\ UNCHANGED <<srcWs, srcGl, current, srcWsPre>>
    /\ RemoveFrame

\* currentJson = readItemTableWithCLI(...); current = currentJson ? JSON.parse(currentJson) : {}
RemoveRead ==
    /\ step = "removeRead"
    /\ \E text \in SourceReadOutcomes :
          IF ParseThrows(text)
          THEN /\ step' = "removeThrew"
               /\ hist' = Append(hist, "cutParseFailed")
               /\ UNCHANGED current
          ELSE /\ current' = ParseOrEmpty(text)
               /\ hist' = Append(hist, IF text = srcWs THEN "cutRead" ELSE "cutReadNull")
               /\ step' = "removeUpdate"
    /\ UNCHANGED <<srcWs, srcGl, files, backupPath, srcWsPre>>
    /\ RemoveFrame

\* nextList, merged = { ...current, allComposers: nextList } and
\* updateItemTableWithCLI(wsUri.fsPath, 'composer.composerData', JSON.stringify(merged))
RemoveUpdate ==
    /\ step = "removeUpdate"
    /\ \/ /\ sqlite3Found
          /\ srcWs' = JsonDoc(NextList(current.allComposers, composerIdsToRemove), current.other)
          /\ srcGl' = PayloadsAfterRemove(srcGl, composerIdsToRemove)
          /\ hist' = Append(hist, "cutWrite")
          /\ step' = "removeUnlink"
       \/ /\ step' = "removeThrew"
          /\ hist' = Append(hist, "cutWriteFailed")
          /\ UNCHANGED <<srcWs, srcGl>>
    /\ UNCHANGED <<files, current, backupPath, srcWsPre>>
    /\ RemoveFrame

\* removeBackup(backupPath): an unlink that fails is logged, not thrown
RemoveUnlink ==
    /\ step = "removeUnlink"
    /\ \/ /\ files' = Unlinked(files, backupPath)
          /\ hist' = Append(hist, "cutUnlink")
       \/ UNCHANGED <<files, hist>>
    /\ step' = "removed"
    /\ UNCHANGED <<srcWs, srcGl, current, backupPath, srcWsPre>>
    /\ RemoveFrame

NextRemove ==
    \/ RemoveCall
    \/ RemoveCreateBackup
    \/ RemoveRead
    \/ RemoveUpdate
    \/ RemoveUnlink

SpecRemove == InitRemove /\ [][NextRemove]_vars

\* ------------------------------------------------------ claims on the removal
IndexList(doc) == IF doc.kind = "json" THEN doc.allComposers ELSE <<>>
RemoveSet == SeqRange(composerIdsToRemove)

\* C17: after every completed removeComposersFromWorkspace(store, ids), the
\* store's Index holds exactly the entries it held before whose recordId is not
\* in ids, in their previous order.
C17_RemovesExactlyTheNamed ==
    step = "removed"
        => IndexList(srcWs)
              = SelectSeq(IndexList(srcWsPre), LAMBDA c : c.composerId \notin RemoveSet)

InRemove ==
    step \in {"remove", "removeCreateBackup", "removeRead", "removeUpdate", "removeUnlink"}

\* C18: a step of removeComposersFromWorkspace never changes the payload store:
\* every payload key and fragment key, those of the removed records included,
\* keeps its value.
C18_PayloadStoreUntouched ==
    [][InRemove => (srcGl' = srcGl /\ gl' = gl)]_vars

C18_Witness ==
    /\ step = "removed"
    /\ "cutWrite" \in Events
    /\ idA \in RemoveSet
    /\ idA \notin ExistingIds(IndexList(srcWs))
    /\ idA \in ExistingIds(IndexList(srcWsPre))
    /\ ComposerKey(idA) \in DOMAIN srcGl
    /\ BubbleKey(idA, fragF) \in DOMAIN srcGl

\* ================================================== extension.js: doImport
\* typeof v for the values a parsed JSON document can hold in a member
TypeOf(v) ==
    CASE v \in {"map", "null", "array"} -> "object"
      [] v = "string" -> "string"
      [] v = "number" -> "number"
      [] OTHER -> "undefined"

\* if (!obj || !Array.isArray(obj.allComposers) || typeof obj.composers !== 'object')
Rejects(f) ==
    \/ f.kind \in {"null", "number"}
    \/ f.allComposers # "array"
    \/ TypeOf(f.composers) # "object"

\* what importFromObject reads in the document: obj.allComposers, and the
\* entries of obj.composers || {} (those of an array are its indices)
ContentOf(allComposers, composers) ==
    [allComposers |-> IF allComposers = "array" THEN <<Entry(idA, "s")>> ELSE <<>>,
     composers |-> CASE composers = "map" -> <<[id |-> idA, value |-> valX]>>
                     [] composers = "array" -> <<[id |-> <<"0">>, value |-> valX]>>
                     [] OTHER -> <<>>,
     bubbles |-> <<>>]

\* the documents JSON.parse(text) can return, and a text that does not parse
ImportFiles ==
    { [kind |-> "unparseable", allComposers |-> "undefined", composers |-> "undefined",
       content |-> EmptySnapshot],
      [kind |-> "null", allComposers |-> "undefined", composers |-> "undefined",
       content |-> EmptySnapshot],
      [kind |-> "number", allComposers |-> "undefined", composers |-> "undefined",
       content |-> EmptySnapshot] }
    \cup { [kind |-> "object", allComposers |-> a, composers |-> c, content |-> ContentOf(a, c)] :
              a \in {"array", "map", "undefined"},
              c \in {"map", "null", "array", "string", "undefined"} }

\* The Import command on any chosen file and any target stores
InitImport ==
    /\ sqlite3Found \in BOOLEAN
    /\ obj = EmptySnapshot
    /\ gl \in {EmptyStore, (ComposerKey(idA) :> valOld)}
    /\ ws \in {AbsentDoc, MalformedDoc, JsonDoc(<<Entry(idC, "t")>>, "o1")}
    /\ callsLeft = 0
    /\ Locals
    /\ srcWs = AbsentDoc
    /\ srcGl = EmptyStore
    /\ selectedComposerIds = NoSelection
    /\ exp = EmptyExport
    /\ cloneResult = EmptyClone
    /\ composerIdsToRemove = <<>>
    /\ NoLocal
    /\ otherCall = NoCall
    /\ backupPath = NoPath
    /\ srcWsPre = AbsentDoc
    /\ file \in ImportFiles
    /\ step = "import"

\* doImport up to the call of importFromObject: JSON.parse(text) (a throw is
\* caught and reported), the format check, the two store pickers (the user may
\* cancel either)
DoImport ==
    /\ step = "import"
    /\ \/ /\ file.kind = "unparseable"
          /\ step' = "importFailed"
          /\ UNCHANGED <<obj, callsLeft>>
       \/ /\ file.kind # "unparseable"
          /\ Rejects(file)
          /\ step' = "rejected"
          /\ UNCHANGED <<obj, callsLeft>>
       \/ /\ file.kind # "unparseable"
          /\ ~Rejects(file)
          /\ \/ /\ step' = "cancelled"
                /\ UNCHANGED <<obj, callsLeft>>
             \/ /\ obj' = file.content
                /\ callsLeft' = 1
                /\ step' = "merge"
    /\ UNCHANGED <<sqlite3Found, gl, ws, files, pc, callNo, wsBackupPath,
                   glBackupPath, wsIntegrity, inserted, current, glPre, wsPre, hist,
                   firstResult, glFirst, wsFirst, srcWs, srcGl, selectedComposerIds,
                   exp, cloneResult, composerIdsToRemove, backupPath, srcWsPre, file, localVars, otherCall>>

NextImport ==
    \/ DoImport
    \/ Next

SpecImport == InitImport /\ [][NextImport]_vars

\* C19: the Import command accepts a file only if its allComposers is an array
\* and its composers is an object, a map from key to payload; for every other
\* document no backup is made and neither target store is read or written.
C19_OnlyValidFilesTouchStores ==
    ~(file.kind = "object" /\ file.allComposers = "array" /\ file.composers = "map")
        => /\ step # "merge"
           /\ pc = "idle"
           /\ hist = <<>>
           /\ files = {}
           /\ gl = glPre
           /\ ws = wsPre

\* ============================================== the three readers of the Index
\* buildExportObject, importFromObject and removeComposersFromWorkspace, one of
\* them per behaviour, each reading the Index of the workspace it is given
InitReadIndex == InitExport \/ Init \/ InitRemove

NextReadIndex == BuildExport \/ Next \/ NextRemove

SpecReadIndex == InitReadIndex /\ [][NextReadIndex]_vars

\* C21: an Index whose stored document is malformed is read as an absent Index
\* (null): none of export, merge and remove ever ends with the parse error of
\* the Index document raised to its caller.
C21_MalformedReadsAsAbsent ==
    Events \cap {"exportParseFailed", "parseFailed", "cutParseFailed"} = {}

\* ================================================== discarding the backups
\* C22: whenever importFromObject returns successfully, both backup
\* files it created have been removed.
C22_BackupsRemovedOnReturn ==
    pc = "returned" => (~HasFile(wsBackupPath) /\ ~HasFile(glBackupPath))

\* ================================================== the phases of one call
\* the phase an event of importFromObject belongs to
Phase(e) ==
    CASE e \in {"backupWs", "backupGl"} -> 1
      [] e \in {"wsPreOk", "wsPreBad", "glPreOk", "glPreBad"} -> 2
      [] e \in {"insert", "insertFailed"} -> 3
      [] e \in {"read", "readNull", "parseFailed", "writeIndex", "writeFailed"} -> 4
      [] e \in {"wsPostOk", "wsPostBad", "glPostOk", "glPostBad", "verifyFailed"} -> 5
      [] e \in {"rmBackupWs", "rmBackupGl"} -> 6
      [] OTHER -> 0

PhasesInOrder == \A i, j \in 1..Len(hist) : i < j => Phase(hist[i]) <= Phase(hist[j])

Mutating == \E i \in 1..Len(hist) : Phase(hist[i]) >= 3

SuccessBackupsRemoved ==
    /\ pc = "returned"
    /\ ~HasFile(wsBackupPath)
    /\ ~HasFile(glBackupPath)

AbortNoStoreMutated ==
    /\ pc = "threw"
    /\ ~Mutating
    /\ gl = glPre
    /\ ws = wsPre

FailureBackupsRetained ==
    /\ pc = "threw"
    /\ Mutating
    /\ HasFile(wsBackupPath)
    /\ HasFile(glBackupPath)

\* C23: every importFromObject call visits the phases only in the order backup,
\* pre-verification, payload insert, Index update, post-verification, backup
\* removal, and ends in exactly one of: success with the backups removed, abort
\* with no store mutated, failure with the backups retained.
C23_PhasesAndEndings ==
    /\ PhasesInOrder
    /\ Ended => Cardinality({k \in 1..3 :
                     \/ k = 1 /\ SuccessBackupsRemoved
                     \/ k = 2 /\ AbortNoStoreMutated
                     \/ k = 3 /\ FailureBackupsRetained}) = 1

\* ================================================ extension.js: doLocalImport
\* cut and ref mode: export the source workspace, import the snapshot into the
\* target workspace and, in cut mode, remove the exported ids from the source.
\* Both workspaces share the global store glUri. The workspace file is held in
\* ws while importFromObject runs on it and in srcWs while it is exported or
\* rewritten by the removal; when source and target are the same file its
\* content is carried from one to the other where the command passes it on.
MaxLocal == 2

Workspaces == {"wsA", "wsB"}

SameWorkspace == sourceWsUri = targetWsUri

LocalSourceChoices ==
    {AbsentDoc, MalformedDoc}
        \cup {JsonDoc(l, "o1") :
                l \in SeqsUpTo({Entry(idA, "s"), Entry(idB, "s"), Entry(NoId, "s")}, MaxLocal)}

LocalTargetChoices ==
    {AbsentDoc, JsonDoc(<<>>, "o1"), JsonDoc(<<Entry(idA, "t")>>, "o1"),
     JsonDoc(<<Entry(idC, "t")>>, "o1")}

LocalGlChoices ==
    { (ComposerKey(idA) :> valX),
      (ComposerKey(idA) :> valX) @@ (ComposerKey(idB) :> valQ) @@ (BubbleKey(idA, fragF) :> valF) }

\* const mode = (modePick && modePick.value) || 'copy'; here the two modes
\* that import the snapshot as exported
LocalModes == {"cut", "ref"}

InitLocal ==
    /\ sqlite3Found \in BOOLEAN
    /\ mode \in LocalModes
    /\ sourceWsUri \in Workspaces
    /\ targetWsUri = "wsA"
    /\ otherCall = NoCall
    /\ srcWs \in LocalSourceChoices
    /\ ws \in (IF SameWorkspace THEN {srcWs} ELSE LocalTargetChoices)
    /\ srcGl \in LocalGlChoices
    /\ gl = srcGl
    /\ obj = EmptySnapshot
    /\ callsLeft = 0
    /\ Locals
    /\ selectedComposerIds = NoSelection
    /\ exp = EmptyExport
    /\ cloneResult = EmptyClone
    /\ composerIdsToRemove = <<>>
    /\ backupPath = NoPath
    /\ srcWsPre = srcWs
    /\ file = NoFile
    /\ step = "export"

\* sourceIds = (exp.allComposers || []).map(c => c.composerId).filter(Boolean)
SourceIds(e) == ExportIds(e.allComposers)

\* importFromObject(exp, targetWsUri, glUri) with the snapshot as exported
LocalImport ==
    /\ step = "exported"
    /\ pc = "idle"
    /\ mode # "copy"
    /\ obj' = [allComposers |-> exp.allComposers, composers |-> exp.composers,
               bubbles |-> exp.bubbles]
    /\ callsLeft' = 1
    /\ step' = "merge"
    /\ UNCHANGED <<sqlite3Found, gl, ws, files, pc, callNo, wsBackupPath,
                   glBackupPath, wsIntegrity, inserted, current, glPre, wsPre, hist,
                   firstResult, glFirst, wsFirst, srcWs, srcGl, selectedComposerIds,
                   exp, cloneResult, composerIdsToRemove, backupPath, srcWsPre, file, localVars, otherCall>>

\* if (mode === 'cut') removeComposersFromWorkspace(sourceWsUri, sourceIds),
\* reached when importFromObject has returned
LocalRemove ==
    /\ step = "merge"
    /\ pc = "returned"
    /\ mode = "cut"
    /\ composerIdsToRemove' = SourceIds(exp)
    /\ srcWs' = IF SameWorkspace THEN ws ELSE srcWs
    /\ step' = "remove"
    /\ UNCHANGED <<sqlite3Found, obj, callsLeft, gl, ws, files, pc, callNo, wsBackupPath,
                   glBackupPath, wsIntegrity, inserted, current, glPre, wsPre, hist,
                   firstResult, glFirst, wsFirst, srcGl, selectedComposerIds,
                   exp, cloneResult, backupPath, srcWsPre, file, localVars, otherCall>>

\* output.appendLine('Local Import done. ...')
LocalDone ==
    /\ \/ step = "removed"
       \/ step = "merge" /\ pc = "returned" /\ mode # "cut"
    /\ ws' = IF SameWorkspace /\ step = "removed" THEN srcWs ELSE ws
    /\ step' = "done"
    /\ UNCHANGED <<sqlite3Found, obj, callsLeft, gl, files, pc, callNo, wsBackupPath,
                   glBackupPath, wsIntegrity, inserted, current, glPre, wsPre, hist,
                   firstResult, glFirst, wsFirst, srcWs, srcGl, selectedComposerIds,
                   exp, cloneResult, composerIdsToRemove, backupPath, srcWsPre, file, localVars, otherCall>>

NextLocal ==
    \/ BuildExport
    \/ LocalImport
    \/ Next
    \/ LocalRemove
    \/ NextRemove
    \/ LocalDone

SpecLocal == InitLocal /\ [][NextLocal]_vars

ListedIds(doc) == ExistingIds(IndexList(doc))

\* C24: in a cut-mode local transfer, for every choice of source and target
\* workspace, the same workspace for both included, the source Index is
\* rewritten only after importFromObject has returned, and when the transfer is
\* done every moved record is listed in the target Index.
C24_CutMovesEveryRecord ==
    mode = "cut"
        => /\ "cutWrite" \in Events => pc = "returned"
           /\ step = "done" => SeqRange(composerIdsToRemove) \subseteq ListedIds(ws)

\* ================================================ without the sqlite3 client
\* C25: when the sqlite3 client cannot be found, importFromObject and
\* removeComposersFromWorkspace never complete successfully, whatever their
\* input, and no store is modified.
C25_FailsWithoutSqlite3 ==
    ~sqlite3Found
        => /\ pc # "returned"
           /\ step # "removed"
           /\ Events \cap {"insert", "writeIndex", "cutWrite"} = {}

\* C25 amended: when the sqlite3 client cannot be found no store is modified,
\* importFromObject returns successfully only for a snapshot with no payload
\* pair and no record bearing an id (nothing to write), and
\* removeComposersFromWorkspace completes only for an empty id list; with
\* anything to write both end with an error.
C25_FailsWhenThereIsWork ==
    ~sqlite3Found
        => /\ Events \cap {"insert", "writeIndex", "cutWrite"} = {}
           /\ Ended => (gl = glPre /\ ws = wsPre)
           /\ srcWs = srcWsPre
           /\ pc = "returned"
                 => (KvPairs(obj) = <<>> /\ Additions(ParseOrEmpty(AbsentDoc), obj) = <<>>)
           /\ step = "removed" => composerIdsToRemove = <<>>

C25_Witness ==
    /\ ~sqlite3Found
    /\ pc = "threw"
    /\ KvPairs(obj) = <<>>
    /\ "writeFailed" \in Events
    /\ ws = wsPre

\* ==================================================== the live host application
\* The stores are written "while Cursor is running": the host adds a record of
\* its own to the Index of the target workspace, at any moment of a call.
idH == <<"h">>

HostEntry == Entry(idH, "h")

InFlight == pc \notin {"idle", "returned", "threw"}

\* the host's own INSERT OR REPLACE of the row composer.composerData
ExternalWrite ==
    /\ InFlight
    /\ "extWrite" \notin Events
    /\ ws' = IF ws.kind = "json"
             THEN JsonDoc(Append(ws.allComposers, HostEntry), ws.other)
             ELSE JsonDoc(<<HostEntry>>, "o1")
    /\ hist' = Append(hist, "extWrite")
    /\ UNCHANGED <<cmdVars, sqlite3Found, obj, callsLeft, gl, files, pc, callNo, wsBackupPath,
                   glBackupPath, wsIntegrity, inserted, current, glPre, wsPre,
                   firstResult, glFirst, wsFirst>>

NextExternal == Next \/ ExternalWrite

SpecExternal == Init /\ [][NextExternal]_vars

\* the Index was read, then the host wrote, then the merged Index was written
WrittenInTheWindow ==
    \E i, j, k \in 1..Len(hist) :
        /\ i < j
        /\ j < k
        /\ hist[i] = "read"
        /\ hist[j] = "extWrite"
        /\ hist[k] = "writeIndex"

\* C27: an entry written to the target Index by an external writer between
\* importFromObject's read of the Index and its write of the merged Index is
\* still present in the Index after the merge.
C27_ExternalWriteSurvives ==
    WrittenInTheWindow => \E i \in 1..Len(IndexList(ws)) : IndexList(ws)[i] = HostEntry

\* ================================================ extension.js: two commands
\* activate registers doExport, doImport and doLocalImport as independent
\* command handlers. Here the Export command and the Import command have both
\* been started. A handler gives up control at each await of real input or
\* output (a picker, a dialog, a read of a store through the sqlite3 module);
\* importFromObject awaits only values that are already computed, so once
\* called it is not interrupted by the other handler.
RECURSIVE Picks(_)
Picks(list) ==
    IF list = <<>> THEN {<<>>}
    ELSE LET rest == Picks(Tail(list))
         IN rest \cup {<<Head(list)>> \o r : r \in rest}

CommandSourceChoices ==
    {AbsentDoc, MalformedDoc, JsonDoc(<<Entry(idA, "s")>>, "o1"),
     JsonDoc(<<Entry(idA, "s"), Entry(idB, "s")>>, "o1")}

CommandSnapshots ==
    {o \in Snapshots : Len(o.allComposers) = 1 /\ o.composers # <<>> /\ o.bubbles = <<>>}

InitCommands ==
    /\ sqlite3Found = TRUE
    /\ obj \in CommandSnapshots
    /\ gl = EmptyStore
    /\ ws \in {AbsentDoc, JsonDoc(<<Entry(idA, "t")>>, "o1")}
    /\ callsLeft = 1
    /\ Locals
    /\ srcWs \in CommandSourceChoices
    /\ srcGl \in LocalGlChoices
    /\ selectedComposerIds = NoSelection
    /\ exp = EmptyExport
    /\ cloneResult = EmptyClone
    /\ composerIdsToRemove = <<>>
    /\ NoLocal
    /\ otherCall = NoCall
    /\ backupPath = NoPath
    /\ srcWsPre = srcWs
    /\ file = NoFile
    /\ step = "exportList"

ExportFrame ==
    UNCHANGED <<sqlite3Found, obj, callsLeft, gl, ws, files, pc, callNo, wsBackupPath,
                glBackupPath, wsIntegrity, inserted, current, glPre, wsPre, hist,
                firstResult, glFirst, wsFirst, srcWs, srcGl,
                cloneResult, composerIdsToRemove, backupPath, srcWsPre, localVars, otherCall>>

\* doExport up to the choice of the chats: readItemTableComposer(wsDb), the
\* warning for a missing Index, the two pickers (either may be dismissed) and
\* selectedIds = allComposers.map(c => c.composerId).filter(Boolean)
ExportList ==
    /\ step = "exportList"
    /\ ~InFlight
    /\ IF ParseThrows(srcWs)
       THEN /\ step' = "exportThrew"
            /\ UNCHANGED selectedComposerIds
       ELSE IF srcWs.kind # "json"
       THEN /\ step' = "exportNothing"
            /\ UNCHANGED selectedComposerIds
       ELSE \/ /\ step' = "exportCancelled"
               /\ UNCHANGED selectedComposerIds
            \/ \E picked \in Picks(srcWs.allComposers) :
                  /\ selectedComposerIds' = Selection(ExportIds(picked))
                  /\ step' = "export"
    /\ UNCHANGED <<exp, file>>
    /\ ExportFrame

\* buildExportObject(wsUri, glUri, selectedIds), resumed by the handler
ExportBuild ==
    /\ ~InFlight
    /\ BuildExport

\* showSaveDialog (may be dismissed) and fs.writeFileSync(saveUri.fsPath,
\* JSON.stringify(exportObj, null, 2), 'utf8')
ExportSave ==
    /\ step = "exported"
    /\ ~InFlight
    /\ \/ /\ step' = "exportCancelled"
          /\ UNCHANGED file
       \/ /\ step' = "saved"
          /\ file' = [kind |-> "object", allComposers |-> "array", composers |-> "map",
                      content |-> [allComposers |-> exp.allComposers,
                                   composers |-> exp.composers,
                                   bubbles |-> exp.bubbles]]
    /\ UNCHANGED <<selectedComposerIds, exp>>
    /\ ExportFrame

NextCommands ==
    \/ ExportList
    \/ ExportBuild
    \/ ExportSave
    \/ Next

SpecCommands == InitCommands /\ [][NextCommands]_vars

ExportUnderWay == step \in {"export", "exported"}

Context ==
    [obj |-> obj, pc |-> pc, callNo |-> callNo, wsBackupPath |-> wsBackupPath,
     glBackupPath |-> glBackupPath, wsIntegrity |-> wsIntegrity,
     inserted |-> inserted, current |-> current]

\* the locals of a call that has run no statement yet
Called(o, n) ==
    [obj |-> o, pc |-> "createBackupWs", callNo |-> n, wsBackupPath |-> NoPath,
     glBackupPath |-> NoPath, wsIntegrity |-> TRUE, inserted |-> 0, current |-> AbsentDoc]

\* where a call resumes after each of its four awaits: the two
\* await checkIntegrity before the writes and the two after them
AwaitResumes == {"checkGlPre", "insertKV", "checkGlPost", "readVerify"}

InFlightSnapshots ==
    {o \in Snapshots : Len(o.allComposers) = 1 /\ o.allComposers[1].composerId # NoId
                         /\ Len(o.composers) = 1 /\ o.bubbles = <<>>}

InitInFlight ==
    /\ sqlite3Found = TRUE
    /\ obj \in InFlightSnapshots
    /\ otherCall \in {Called(o, 2) : o \in InFlightSnapshots}
    /\ gl = EmptyStore
    /\ ws \in {AbsentDoc, JsonDoc(<<Entry(idC, "t")>>, "o1")}
    /\ callsLeft = 0
    /\ pc = "createBackupWs"
    /\ callNo = 1
    /\ wsBackupPath = NoPath
    /\ glBackupPath = NoPath
    /\ wsIntegrity = TRUE
    /\ inserted = 0
    /\ current = AbsentDoc
    /\ glPre = gl
    /\ wsPre = ws
    /\ hist = <<>>
    /\ firstResult = "none"
    /\ glFirst = gl
    /\ wsFirst = ws
    /\ files = {}
    /\ srcWs = AbsentDoc
    /\ srcGl = EmptyStore
    /\ selectedComposerIds = NoSelection
    /\ exp = EmptyExport
    /\ cloneResult = EmptyClone
    /\ composerIdsToRemove = <<>>
    /\ mode = "none"
    /\ sourceWsUri = "none"
    /\ targetWsUri = "none"
    /\ backupPath = NoPath
    /\ srcWsPre = AbsentDoc
    /\ file = NoFile
    /\ step = "merge"

\* the running call has reached an await since it was given control, or has ended
Yields ==
    \/ pc \in AwaitResumes /\ hist # <<>> /\ hist[Len(hist)] # "switch"
    \/ pc \in {"returned", "threw"}

\* control passes from the running call to the waiting one
Switch ==
    /\ Yields
    /\ otherCall.pc \notin {"none", "returned", "threw"}
    /\ obj' = otherCall.obj
    /\ pc' = otherCall.pc
    /\ callNo' = otherCall.callNo
    /\ wsBackupPath' = otherCall.wsBackupPath
    /\ glBackupPath' = otherCall.glBackupPath
    /\ wsIntegrity' = otherCall.wsIntegrity
    /\ inserted' = otherCall.inserted
    /\ current' = otherCall.current
    /\ otherCall' = Context
    /\ hist' = Append(hist, "switch")
    /\ UNCHANGED <<sqlite3Found, callsLeft, gl, ws, files, glPre, wsPre,
                   firstResult, glFirst, wsFirst, srcWs, srcGl, selectedComposerIds,
                   exp, cloneResult, composerIdsToRemove, backupPath, srcWsPre, file,
                   step, localVars>>

NextInFlight ==
    \/ CreateBackupWs
    \/ CreateBackupGl
    \/ CheckWsPre
    \/ CheckGlPre
    \/ InsertKV
    \/ ReadIndex
    \/ UpdateIndex
    \/ CheckWsPost
    \/ CheckGlPost
    \/ ReadVerify
    \/ RemoveBackupWs
    \/ RemoveBackupGl
    \/ Switch

SpecInFlight == InitInFlight /\ [][NextInFlight]_vars

Switches(i, k) == Cardinality({j \in (i + 1)..(k - 1) : hist[j] = "switch"})

\* two events of the insert, read and write of the Index with a switch between
\* them belong to different calls
NotInterleaved ==
    \A i, k \in 1..Len(hist) :
        (i < k /\ Phase(hist[i]) \in {3, 4} /\ Phase(hist[k]) \in {3, 4})
            => Switches(i, k) % 2 = 1 \/ Switches(i, k) = 0

BothReturned == pc = "returned" /\ otherCall.pc = "returned"

\* C28: when two importFromObject calls on the same target stores are in flight,
\* control passes between them only at the integrity-check awaits, so the
\* payload insert, Index read and Index write of one call are not interleaved
\* with the other's, and when both have returned the Index lists the records of
\* both snapshots.
C28_InFlightCallsBothMerged ==
    /\ NotInterleaved
    /\ BothReturned
          => (ExistingIds(obj.allComposers) \cup ExistingIds(otherCall.obj.allComposers))
                 \subseteq ListedIds(ws)

\* ================================================ the other fields of the Index
\* C29: every field of the Index document other than the record list has the
\* same value after importFromObject and after removeComposersFromWorkspace as
\* before.
C29_OtherFieldsPreserved ==
    /\ wsPre.kind = "json" => ws.other = wsPre.other
    /\ srcWsPre.kind = "json" => srcWs.other = srcWsPre.other

\* ================================================ the fragments of a clone
\* every fragment of the output, with the id it is filed under
OutputFragments ==
    {<<i, j>> \in (1..Len(cloneResult.cloned.bubbles)) \X (1..2) :
        j <= Len(cloneResult.cloned.bubbles[i].list)}

\* C30: in the output of cloneExportObjectForCopy every fragment is filed under
\* its record's new recordId, its key is exactly
\* bubbleId:<new recordId>:<new fragmentId>, and its bubbleId attribute is that
\* new fragmentId, an id generated for this fragment alone.
C30_FragmentsFiledUnderNewIds ==
    Cloned =>
        /\ Cardinality(OutputFragments) = Cardinality(InputFragments)
        /\ \A f \in InputFragments :
              LET oldR == exp.bubbles[f[1]].composerId
                  newR == Lookup(cloneResult.idMap, oldR)
                  old == exp.bubbles[f[1]].list[f[2]]
                  new == ClonedBubblesOf(newR)[f[2]]
              IN /\ newR \in NewIds
                 /\ new.bubbleId \in NewIds
                 /\ new.key = <<"bubbleId:">> \o newR \o <<":">> \o new.bubbleId
                 /\ old.bubbleId \notin {exp.bubbles[g[1]].list[g[2]].bubbleId :
                                             g \in InputFragments \ {f}}
                       => new.bubbleId = Lookup(cloneResult.bubbleIdMap, old.bubbleId)
        /\ \A f, g \in OutputFragments :
              cloneResult.cloned.bubbles[f[1]].list[f[2]].bubbleId
                    = cloneResult.cloned.bubbles[g[1]].list[g[2]].bubbleId
                 => f = g

C30_Witness ==
    /\ Cloned
    /\ Len(cloneResult.cloned.bubbles) = 2
    /\ Cardinality(OutputFragments) = 2
    /\ \E f, g \in InputFragments :
          /\ f # g
          /\ exp.bubbles[f[1]].list[f[2]].bubbleId = exp.bubbles[g[1]].list[g[2]].bubbleId

\* ================================================ the time stamps of a clone
\* the records of the input that are cloned, in the order of the input
ClonedFrom == SelectSeq(exp.allComposers, LAMBDA c : c.composerId # NoId)

\* C31: in the output of cloneExportObjectForCopy the creation and the update
\* time stamp of each record are the clone time plus the record's position in
\* the output list (counted from 0), hence strictly increasing along the list
\* and pairwise distinct; the other metadata of the record is that of the input
\* record at the same position among the cloned ones.
C31_TimestampsFollowPosition ==
    Cloned =>
        LET out == cloneResult.cloned.allComposers
        IN /\ Len(out) = Len(ClonedFrom)
           /\ \A i \in 1..Len(out) :
                 /\ out[i].createdAt = Now + (i - 1)
                 /\ out[i].lastUpdatedAt = Now + (i - 1)
                 /\ out[i].name = ClonedFrom[i].name
                 /\ DOMAIN out[i] = DOMAIN ClonedFrom[i] \cup {"createdAt", "lastUpdatedAt"}
           /\ \A i, j \in 1..Len(out) : i < j => out[i].createdAt < out[j].createdAt

C31_Witness ==
    /\ Cloned
    /\ Len(cloneResult.cloned.allComposers) = MaxRecords
    /\ Len(exp.allComposers) = MaxRecords
    /\ cloneResult.cloned.allComposers[MaxRecords].createdAt = Now + MaxRecords - 1

\* ============================================ the fragments filed by an export
\* Record ids are opaque strings: these contain the characters that the query
\* and the split of readBubblesForComposer give a meaning to
FragmentIds == {idA, <<"A">>, <<"a", "_">>, <<"a", "b">>, <<"a", ":", "b">>}

FragmentWsChoices ==
    {AbsentDoc, MalformedDoc}
        \cup {JsonDoc(l, "o1") : l \in SeqsUpTo({Entry(id, "s") : id \in FragmentIds}, MaxSelected)}

FragmentGlChoices ==
    {[k \in K |-> valF] : K \in SUBSET {BubbleKey(id, fragF) : id \in FragmentIds}}

\* One buildExportObject call on stores whose record ids are any strings
InitFragments ==
    /\ sqlite3Found = TRUE
    /\ obj = EmptySnapshot
    /\ gl = EmptyStore
    /\ ws = AbsentDoc
    /\ callsLeft = 0
    /\ Locals
    /\ srcWs \in FragmentWsChoices
    /\ srcGl \in FragmentGlChoices
    /\ selectedComposerIds = NoSelection
    /\ exp = EmptyExport
    /\ cloneResult = EmptyClone
    /\ composerIdsToRemove = <<>>
    /\ NoLocal
    /\ otherCall = NoCall
    /\ backupPath = NoPath
    /\ srcWsPre = srcWs
    /\ file = NoFile
    /\ step = "export"

SpecFragments == InitFragments /\ [][NextExport]_vars

\* the fragments filed under record r in the snapshot (none when r has no entry)
FiledUnder(r) ==
    IF \E i \in 1..Len(exp.bubbles) : exp.bubbles[i].composerId = r
    THEN exp.bubbles[CHOOSE i \in 1..Len(exp.bubbles) : exp.bubbles[i].composerId = r].list
    ELSE <<>>

FragmentPrefix(r) == <<"bubbleId:">> \o r \o <<":">>

FiledExactly(r) ==
    LET filed == FiledUnder(r)
        prefix == FragmentPrefix(r)
    IN /\ {filed[j].key : j \in 1..Len(filed)}
             = {k \in DOMAIN srcGl : IsPrefix(prefix, k)}
       /\ \A j \in 1..Len(filed) :
             /\ filed[j].value = srcGl[filed[j].key]
             /\ IsPrefix(prefix, filed[j].key)
                   => filed[j].bubbleId
                         = SubSeq(filed[j].key, Len(prefix) + 1, Len(filed[j].key))

\* C32: for every record r of an export, the fragments buildExportObject files
\* under r are exactly the payload-store entries whose key starts with
\* bubbleId:<r>: and the bubbleId attribute of each is the part of its key
\* after that prefix.
C32_FragmentsByPrefix ==
    step = "exported" => \A r \in ExportedIds : FiledExactly(r)

\* =================================================== an export only reads
Exporting == step = "export"
StoresUntouched == UNCHANGED <<srcWs, srcGl, ws, gl, files>>

\* C33: buildExportObject modifies neither the workspace store nor the global
\* store (nor any file beside them), when it returns a snapshot and when it
\* throws.
C33_ExportOnlyReads == [][Exporting => StoresUntouched]_vars

\* an export that returned records with payloads and fragments
C33_Witness ==
    /\ step = "exported"
    /\ Len(exp.composers) > 0
    /\ Len(exp.bubbles) > 0
    /\ srcWs.kind = "json"
    /\ srcGl # EmptyStore

\* ================================================ the diagnostic counters
CountersAddUp ==
    exp.debugInfo.composersWithData + Len(exp.debugInfo.missingComposerData)
        = exp.debugInfo.totalComposers

\* C35: in every result of buildExportObject the number of records with a
\* payload found plus the number of records listed as missing a payload equals
\* the number of records scanned.
C35_CountersConsistent == step = "exported" => CountersAddUp

\* ============================================ the backup of a removal
Logged(e) == \E i \in 1..Len(hist) : hist[i] = e
RemoveEnded == step \in {"removed", "removeThrew"}
RemoveReadFailed == Logged("cutReadNull") \/ Logged("cutParseFailed")
RemoveBackupKept == \E f \in files : PathOf(f) = backupPath /\ f.content = srcWsPre

BackupBeforeWrite == Logged("cutWrite") => Before("cutBackup", "cutWrite")
UnlinkAfterWrite == Logged("cutUnlink") => Before("cutWrite", "cutUnlink")
FailedWriteRethrown ==
    (RemoveEnded /\ Logged("cutWriteFailed")) => (step = "removeThrew" /\ RemoveBackupKept)
FailedReadRethrown ==
    (RemoveEnded /\ RemoveReadFailed) => (step = "removeThrew" /\ RemoveBackupKept)
EmptySetDoesNothing ==
    (RemoveEnded /\ Len(composerIdsToRemove) = 0)
        => (step = "removed" /\ hist = <<>> /\ files = {} /\ srcWs = srcWsPre)

\* C36: removeComposersFromWorkspace creates its backup before it writes the
\* Index, removes the backup only after the Index write succeeded, keeps the
\* backup and rethrows when the read or the write fails, and for an empty
\* removal set creates no backup and writes nothing.
C36_RemovalBackupProtocol ==
    /\ BackupBeforeWrite
    /\ UnlinkAfterWrite
    /\ FailedWriteRethrown
    /\ FailedReadRethrown
    /\ EmptySetDoesNothing

\* ===================================== extension.js: doLocalImport, copy mode
\* copy mode: export the source workspace, clone the snapshot under new ids and
\* import the clone into the target workspace; nothing is removed
CopySourceChoices ==
    {JsonDoc(<<Entry(idA, "s")>>, "o1"),
     JsonDoc(<<Entry(idA, "s"), Entry(idB, "s")>>, "o1")}

CopyTargetChoices == {AbsentDoc, JsonDoc(<<Entry(idC, "t")>>, "o1")}

CopyGlChoices ==
    { (ComposerKey(idA) :> DocOf(idA, fragF)),
      (ComposerKey(idA) :> DocOf(idA, fragF)) @@ (ComposerKey(idB) :> valQ)
          @@ (BubbleKey(idA, fragF) :> BubbleDoc(fragF, idA)) }

InitCopy ==
    /\ sqlite3Found \in BOOLEAN
    /\ mode = "copy"
    /\ sourceWsUri \in Workspaces
    /\ targetWsUri = "wsA"
    /\ otherCall = NoCall
    /\ srcWs \in CopySourceChoices
    /\ ws \in (IF SameWorkspace THEN {srcWs} ELSE CopyTargetChoices)
    /\ srcGl \in CopyGlChoices
    /\ gl = srcGl
    /\ obj = EmptySnapshot
    /\ callsLeft = 0
    /\ Locals
    /\ selectedComposerIds = NoSelection
    /\ exp = EmptyExport
    /\ cloneResult = EmptyClone
    /\ composerIdsToRemove = <<>>
    /\ backupPath = NoPath
    /\ srcWsPre = srcWs
    /\ file = NoFile
    /\ step = "export"

NextCopy ==
    \/ BuildExport
    \/ Clone
    \/ ImportCloned
    \/ Next
    \/ LocalDone

SpecCopy == InitCopy /\ [][NextCopy]_vars

\* the source workspace file as it is now: the file importFromObject works on
\* when it is also the target
SourceIndexNow == IF SameWorkspace THEN ws ELSE srcWs

SourceKeys ==
    {k \in DOMAIN srcGl :
        \E id \in ListedIds(srcWsPre) :
            k = ComposerKey(id) \/ IsPrefix(<<"bubbleId:">> \o id \o <<":">>, k)}

SourceIndexUnchanged == SourceIndexNow = srcWsPre

SourceKeysKeepValue == \A k \in SourceKeys : k \in DOMAIN gl /\ gl[k] = srcGl[k]

AddedUnderNewIds ==
    pc # "idle" => (ListedIds(ws) \ ListedIds(wsPre)) \cap ListedIds(srcWsPre) = {}

\* C34: a copy-mode local transfer leaves the source Index unchanged, leaves
\* every payload and fragment key of the source records with its previous
\* value, and every record it adds to the target Index has a recordId
\* different from every source recordId.
C34_CopyLeavesSourceAlone ==
    mode = "copy" => (SourceIndexUnchanged /\ SourceKeysKeepValue /\ AddedUnderNewIds)

====
